---- MODULE Spec2Model ----
(***************************************************************************)
(* Context compaction engine of gemini-cli: GeminiClient's hybrid trigger, *)
(* the deliberate (goal based) prompt flow and ChatCompressionService.     *)
(*                                                                         *)
(* Two callers share one GeminiClient: "turn" runs sendMessageStream (the  *)
(* post-response trigger) and "cmd" calls tryCompressChat directly (the    *)
(* /compress command).  Every await that waits for the network, the user   *)
(* or a returned promise is a suspension point, so the two callers         *)
(* interleave there.                                                       *)
(*                                                                         *)
(* Numbers: token counts are drawn from TokenLevels, fractions (0.5, 0.3)  *)
(* are kept as exact percentages, Date.now() is a millisecond clock.       *)
(***************************************************************************)
EXTENDS Integers, Sequences, FiniteSets, TLC

\* ---------------------------------------------------------------- bounds
MaxHistory == 4
MaxMessages == 2
MaxTicks == 1
InitMinMessages == 1
InitMinTimeBetween == 1
MaxRelaxedTriggerTokens == 60000
MaxSplitLen == 4

\* ------------------------------------------------------ program constants
DefaultTriggerTokens == 40000
DEFAULT_COMPRESSION_TOKEN_THRESHOLD == 50
COMPRESSION_PRESERVE_THRESHOLD == 30
MaxTriggerTokens == 200000
MaxMinMessages == 100
MsPerSecond == 1000
MinMessagesToCompress == 5

\* Date.now() at session start and the step of the clock
ClockStart == MsPerSecond
TickMs == MsPerSecond
MaxClock == ClockStart + MaxTicks * TickMs

\* tokenLimit(model) of the effective model and the token counts the opaque
\* estimator may report
ModelLimits == {1000000}
TokenLevels == {45000, 520000}
\* the token counts calculateRequestTokenCount may report for a rebuilt history
CountLevels == TokenLevels \cup {600000}
\* JSON.stringify(content).length of the messages of a session
MessageChars == {1}
Goals == {"g1"}

Procs == {"turn", "cmd"}
Null == "null"
NoGoal == "none"
\* an undefined number, and the null newHistory of a result (a built history
\* always holds the summary and the acknowledgment, so it is never empty)
Undefined == 0 - 1
NullHistory == <<>>

\* ---------------------------------------------------------------- messages
UserMsg(n) == [role |-> "user", functionCall |-> FALSE, functionResponse |-> FALSE, chars |-> n]
ModelMsg(n) == [role |-> "model", functionCall |-> FALSE, functionResponse |-> FALSE, chars |-> n]
ToolCallMsg(n) == [role |-> "model", functionCall |-> TRUE, functionResponse |-> FALSE, chars |-> n]
ToolResultMsg(n) == [role |-> "user", functionCall |-> FALSE, functionResponse |-> TRUE, chars |-> n]

Slice(s, from, to) == SubSeq(s, from + 1, to)

RECURSIVE TotalChars(_)
TotalChars(s) == IF s = <<>> THEN 0 ELSE Head(s).chars + TotalChars(Tail(s))

\* ------------------------------------------------------------ SplitPlanner
\* mutant: every user-role message is a boundary, also a function response
IsSplitCandidate_AnyUserMessage(content) == content.role = "user"

IsSplitCandidate(content) == content.role = "user" /\ ~content.functionResponse

\* mutant: a boundary counts only when the weight before it exceeds the target
RECURSIVE PercentageScan_StrictTarget(_, _, _, _, _)
PercentageScan_StrictTarget(contents, fractionPct, i, cumulativeCharCount, lastSplitPoint) ==
  IF i >= Len(contents) THEN <<FALSE, lastSplitPoint>>
  ELSE IF IsSplitCandidate(contents[i + 1])
       THEN IF cumulativeCharCount * 100 > TotalChars(contents) * fractionPct
            THEN <<TRUE, i>>
            ELSE PercentageScan_StrictTarget(contents, fractionPct, i + 1,
                                             cumulativeCharCount + contents[i + 1].chars, i)
       ELSE PercentageScan_StrictTarget(contents, fractionPct, i + 1,
                                        cumulativeCharCount + contents[i + 1].chars, lastSplitPoint)

\* the for loop of the percentage scan; i is the 0-based index, the result is
\* <<found, index>>
RECURSIVE PercentageScan(_, _, _, _, _)
PercentageScan(contents, fractionPct, i, cumulativeCharCount, lastSplitPoint) ==
  IF i >= Len(contents) THEN <<FALSE, lastSplitPoint>>
  ELSE IF IsSplitCandidate(contents[i + 1])
       THEN IF cumulativeCharCount * 100 >= TotalChars(contents) * fractionPct
            THEN <<TRUE, i>>
            ELSE PercentageScan(contents, fractionPct, i + 1,
                                cumulativeCharCount + contents[i + 1].chars, i)
       ELSE PercentageScan(contents, fractionPct, i + 1,
                           cumulativeCharCount + contents[i + 1].chars, lastSplitPoint)

CanCompressEverything(contents) ==
  /\ Len(contents) > 0
  /\ contents[Len(contents)].role = "model"
  /\ ~contents[Len(contents)].functionCall

\* findCompressSplitPoint(contents, fraction): the index of the oldest item to keep
FindCompressSplitPointFraction(contents, fractionPct) ==
  LET scan == PercentageScan(contents, fractionPct, 0, 0, 0)
  IN IF scan[1] THEN scan[2]
     ELSE IF CanCompressEverything(contents) THEN Len(contents)
     ELSE scan[2]

\* the null result of findCompressSplitPoint
NoSplit == [splitIndex |-> -1, historyToCompress |-> <<>>, historyToKeep |-> <<>>]

\* backward scan for the last user-role message, -1 if there is none
LastUserMessageIndex(contents) ==
  LET userIdx == {i \in 0..(Len(contents) - 1) : contents[i + 1].role = "user"}
  IN IF userIdx = {} THEN -1 ELSE CHOOSE i \in userIdx : \A j \in userIdx : j <= i

\* mutant: the last user message must lie beyond minMessagesToCompress
FindCompressSplitPointSinceLastPrompt_Strict(contents, minMessagesToCompress) ==
  LET lastUserMessageIndex == LastUserMessageIndex(contents)
  IN IF lastUserMessageIndex <= 0 THEN NoSplit
     ELSE IF lastUserMessageIndex <= minMessagesToCompress THEN NoSplit
     ELSE [splitIndex |-> lastUserMessageIndex,
           historyToCompress |-> Slice(contents, 0, lastUserMessageIndex),
           historyToKeep |-> Slice(contents, lastUserMessageIndex, Len(contents))]

\* mutant: the last user message is left out of both parts
FindCompressSplitPointSinceLastPrompt_DropsPrompt(contents, minMessagesToCompress) ==
  LET lastUserMessageIndex == LastUserMessageIndex(contents)
  IN IF lastUserMessageIndex <= 0 THEN NoSplit
     ELSE IF lastUserMessageIndex < minMessagesToCompress THEN NoSplit
     ELSE [splitIndex |-> lastUserMessageIndex,
           historyToCompress |-> Slice(contents, 0, lastUserMessageIndex),
           historyToKeep |-> Slice(contents, lastUserMessageIndex + 1, Len(contents))]

\* findCompressSplitPoint(contents, {strategy: 'since-last-prompt', ...})
FindCompressSplitPointSinceLastPrompt(contents, minMessagesToCompress) ==
  LET lastUserMessageIndex == LastUserMessageIndex(contents)
  IN IF lastUserMessageIndex <= 0 THEN NoSplit
     ELSE IF lastUserMessageIndex < minMessagesToCompress THEN NoSplit
     ELSE [splitIndex |-> lastUserMessageIndex,
           historyToCompress |-> Slice(contents, 0, lastUserMessageIndex),
           historyToKeep |-> Slice(contents, lastUserMessageIndex, Len(contents))]

\* findCompressSplitPoint(contents, {strategy: 'percentage', preserveThreshold})
FindCompressSplitPointPercentage(contents, preserveThresholdPct) ==
  LET fractionPct == 100 - preserveThresholdPct
      scan == PercentageScan(contents, fractionPct, 0, 0, 0)
      Result(i) == [splitIndex |-> i,
                    historyToCompress |-> Slice(contents, 0, i),
                    historyToKeep |-> Slice(contents, i, Len(contents))]
  IN IF scan[1] THEN Result(scan[2])
     ELSE IF CanCompressEverything(contents) THEN Result(Len(contents))
     ELSE Result(scan[2])

\* the second argument of findCompressSplitPoint: a fraction, or options
FractionArgument(fractionPct) ==
  [fraction |-> fractionPct, strategy |-> "none", minMessagesToCompress |-> Undefined,
   preserveThreshold |-> Undefined]
OptionsArgument(strategy, minMessagesToCompress, preserveThresholdPct) ==
  [fraction |-> Undefined, strategy |-> strategy, minMessagesToCompress |-> minMessagesToCompress,
   preserveThreshold |-> preserveThresholdPct]

\* findCompressSplitPoint(contents, fractionOrOptions): what it returns is a
\* number, a SplitPointResult or null, or it throws
FindCompressSplitPoint(contents, fractionOrOptions) ==
  LET Returns(type, r) ==
        [type |-> type, splitIndex |-> r.splitIndex,
         historyToCompress |-> r.historyToCompress, historyToKeep |-> r.historyToKeep]
  IN IF fractionOrOptions.fraction # Undefined
     THEN IF fractionOrOptions.fraction <= 0 \/ fractionOrOptions.fraction >= 100
          THEN Returns("error", NoSplit)
          ELSE Returns("number",
                 [NoSplit EXCEPT !.splitIndex =
                    FindCompressSplitPointFraction(contents, fractionOrOptions.fraction)])
     ELSE IF fractionOrOptions.strategy = "since-last-prompt"
     THEN LET m == IF fractionOrOptions.minMessagesToCompress = Undefined THEN MinMessagesToCompress
                   ELSE fractionOrOptions.minMessagesToCompress
              r == FindCompressSplitPointSinceLastPrompt(contents, m)
          IN IF r = NoSplit THEN Returns("null", NoSplit) ELSE Returns("result", r)
     ELSE LET t == IF fractionOrOptions.preserveThreshold = Undefined THEN COMPRESSION_PRESERVE_THRESHOLD
                   ELSE fractionOrOptions.preserveThreshold
          IN Returns("result", FindCompressSplitPointPercentage(contents, t))

\* ------------------------------------------------------- CompressionOptions
NoOptions == [userGoal |-> NoGoal, preserveStrategy |-> NoGoal]

\* DeliberateCompressionOrchestrator.createCompressionOptions; the argument is
\* a string or null, and every non-empty string (also 'auto') is truthy
CreateCompressionOptions(selectedGoal) ==
  IF selectedGoal # Null /\ selectedGoal # ""
  THEN [userGoal |-> selectedGoal, preserveStrategy |-> "since-last-prompt"]
  ELSE [userGoal |-> NoGoal, preserveStrategy |-> "percentage"]

\* ---------------------------------------------------------- TriggerEvaluator
Decision(shouldCompress, reason, isSafetyValve) ==
  [shouldCompress |-> shouldCompress, reason |-> reason, isSafetyValve |-> isSafetyValve]

NoDecision == Decision(FALSE, Null, FALSE)

\* mutant: the message and time guards are applied before the safety valve
ShouldTriggerCompression_GuardsFirst(compressing, currentTokens, limit, cfg, messages, lastTime, clock) ==
  IF compressing THEN Decision(FALSE, "compression_in_progress", FALSE)
  ELSE IF currentTokens < cfg.triggerTokens
       THEN Decision(FALSE, "below_token_threshold", FALSE)
  ELSE IF messages < cfg.minMessages
       THEN Decision(FALSE, "message_guard_failed", FALSE)
  ELSE IF lastTime > 0 /\ (clock - lastTime) < cfg.minTimeBetween * MsPerSecond
       THEN Decision(FALSE, "time_guard_failed", FALSE)
  ELSE IF currentTokens * 100 >= cfg.triggerUtilization * limit
       THEN Decision(TRUE, "utilization_threshold", TRUE)
  ELSE Decision(TRUE, "absolute_tokens", FALSE)

\* mutant: the message guard also blocks at exactly minMessages messages
ShouldTriggerCompression_MessageGuardInclusive(compressing, currentTokens, limit, cfg, messages, lastTime, clock) ==
  IF compressing THEN Decision(FALSE, "compression_in_progress", FALSE)
  ELSE IF currentTokens * 100 >= cfg.triggerUtilization * limit
       THEN Decision(TRUE, "utilization_threshold", TRUE)
  ELSE IF currentTokens < cfg.triggerTokens
       THEN Decision(FALSE, "below_token_threshold", FALSE)
  ELSE IF messages <= cfg.minMessages
       THEN Decision(FALSE, "message_guard_failed", FALSE)
  ELSE IF lastTime > 0 /\ (clock - lastTime) < cfg.minTimeBetween * MsPerSecond
       THEN Decision(FALSE, "time_guard_failed", FALSE)
  ELSE Decision(TRUE, "absolute_tokens", FALSE)

ShouldTriggerCompression(compressing, currentTokens, limit, cfg, messages, lastTime, clock) ==
  IF compressing THEN Decision(FALSE, "compression_in_progress", FALSE)
  ELSE IF currentTokens * 100 >= cfg.triggerUtilization * limit
       THEN Decision(TRUE, "utilization_threshold", TRUE)
  ELSE IF currentTokens < cfg.triggerTokens
       THEN Decision(FALSE, "below_token_threshold", FALSE)
  ELSE IF messages < cfg.minMessages
       THEN Decision(FALSE, "message_guard_failed", FALSE)
  ELSE IF lastTime > 0 /\ (clock - lastTime) < cfg.minTimeBetween * MsPerSecond
       THEN Decision(FALSE, "time_guard_failed", FALSE)
  ELSE Decision(TRUE, "absolute_tokens", FALSE)

\* -------------------------------------------------------- CompactionExecutor
\* mutant: without a since-last-prompt split nothing is compressed
CompressSplit_NoFallback(curatedHistory, options) ==
  LET splitPoint == FindCompressSplitPointFraction(curatedHistory, 100 - COMPRESSION_PRESERVE_THRESHOLD)
      percentage == <<Slice(curatedHistory, 0, splitPoint),
                      Slice(curatedHistory, splitPoint, Len(curatedHistory))>>
  IN IF options.preserveStrategy = "since-last-prompt"
     THEN LET splitResult == FindCompressSplitPointSinceLastPrompt(curatedHistory, MinMessagesToCompress)
          IN IF splitResult = NoSplit THEN <<<<>>, curatedHistory>>
             ELSE <<splitResult.historyToCompress, splitResult.historyToKeep>>
     ELSE percentage

\* the split chosen by ChatCompressionService.compress: <<historyToCompress, historyToKeep>>
CompressSplit(curatedHistory, options) ==
  LET splitPoint == FindCompressSplitPointFraction(curatedHistory, 100 - COMPRESSION_PRESERVE_THRESHOLD)
      percentage == <<Slice(curatedHistory, 0, splitPoint),
                      Slice(curatedHistory, splitPoint, Len(curatedHistory))>>
  IN IF options.preserveStrategy = "since-last-prompt"
     THEN LET splitResult == FindCompressSplitPointSinceLastPrompt(curatedHistory, MinMessagesToCompress)
          IN IF splitResult = NoSplit THEN percentage
             ELSE <<splitResult.historyToCompress, splitResult.historyToKeep>>
     ELSE percentage

CompressionThreshold(cfg) ==
  IF cfg.compressionThreshold = Undefined THEN DEFAULT_COMPRESSION_TOKEN_THRESHOLD
  ELSE cfg.compressionThreshold

\* mutant: the sticky failure flag short-circuits forced attempts as well
CompressStart_StickyIgnoresForce(curatedHistory, lastPromptTokenCount, force, limit, cfg, hasFailed, options) ==
  LET originalTokenCount == lastPromptTokenCount
      split == CompressSplit(curatedHistory, options)
      Result(status, orig, new, toCompress, toKeep) ==
        [compressionStatus |-> status, originalTokenCount |-> orig, newTokenCount |-> new,
         historyToCompress |-> toCompress, historyToKeep |-> toKeep]
  IN IF Len(curatedHistory) = 0 \/ hasFailed
     THEN Result("NOOP", 0, 0, <<>>, <<>>)
     ELSE IF ~force /\ originalTokenCount * 100 < CompressionThreshold(cfg) * limit
     THEN Result("NOOP", originalTokenCount, originalTokenCount, <<>>, <<>>)
     ELSE IF Len(split[1]) = 0
     THEN Result("NOOP", originalTokenCount, originalTokenCount, <<>>, <<>>)
     ELSE Result("PENDING", originalTokenCount, 0, split[1], split[2])

\* compress() up to the summarization call: either a NOOP result or "PENDING",
\* the request to the summarization model being in flight
CompressStart(curatedHistory, lastPromptTokenCount, force, limit, cfg, hasFailed, options) ==
  LET originalTokenCount == lastPromptTokenCount
      split == CompressSplit(curatedHistory, options)
      Result(status, orig, new, toCompress, toKeep) ==
        [compressionStatus |-> status, originalTokenCount |-> orig, newTokenCount |-> new,
         historyToCompress |-> toCompress, historyToKeep |-> toKeep]
  IN IF Len(curatedHistory) = 0 \/ (hasFailed /\ ~force)
     THEN Result("NOOP", 0, 0, <<>>, <<>>)
     ELSE IF ~force /\ originalTokenCount * 100 < CompressionThreshold(cfg) * limit
     THEN Result("NOOP", originalTokenCount, originalTokenCount, <<>>, <<>>)
     ELSE IF Len(split[1]) = 0
     THEN Result("NOOP", originalTokenCount, originalTokenCount, <<>>, <<>>)
     ELSE Result("PENDING", originalTokenCount, 0, split[1], split[2])

\* mutant: the summary is followed directly by the kept messages
ExtraHistory_WithoutAcknowledgment(summaryChars, historyToKeep) ==
  <<UserMsg(summaryChars)>> \o historyToKeep

\* the history compress() builds from the summary
ExtraHistory(summaryChars, historyToKeep) ==
  <<UserMsg(summaryChars), ModelMsg(1)>> \o historyToKeep

\* the event compress() hands to logChatCompression
ChatCompressionEvent(originalTokenCount, newTokenCount, options, historyToKeep, historyToCompress) ==
  [tokens_before |-> originalTokenCount, tokens_after |-> newTokenCount,
   goal_was_selected |-> options.userGoal # NoGoal /\ options.userGoal # "",
   messages_preserved |-> Len(historyToKeep),
   messages_compressed |-> Len(historyToCompress),
   trigger_reason |-> IF options.preserveStrategy = NoGoal THEN "percentage"
                      ELSE options.preserveStrategy]

\* getInitialChatHistory(config, extraHistory) of utils/environmentContext.js:
\* the history a new chat starts with
GetInitialChatHistory(extraHistory) == extraHistory

\* goalWasSelected: !!userGoal of the results built after the summarization
GoalWasSelected(options) ==
  IF options.userGoal # NoGoal /\ options.userGoal # "" THEN "true" ELSE "false"

\* the validation at the end of compress()
ValidateTokenCount(originalTokenCount, newTokenCount) ==
  IF newTokenCount > originalTokenCount
  THEN "COMPRESSION_FAILED_INFLATED_TOKEN_COUNT"
  ELSE "COMPRESSED"

\* ------------------------------------------------------ SelectionCoordinator
PromptDecision(shouldPrompt, reason, fallback) ==
  [shouldPrompt |-> shouldPrompt, reason |-> reason, fallbackToBasicCompression |-> fallback]

\* mutant: the auto-skip preference is looked at before the goals
ShouldPromptUser_AutoSkipFirst(extractionResult, cfg, isSafetyValve) ==
  IF isSafetyValve THEN PromptDecision(FALSE, "safety_valve", TRUE)
  ELSE IF extractionResult.error = "timeout" THEN PromptDecision(FALSE, "extraction_timeout", TRUE)
  ELSE IF cfg.autoSkip THEN PromptDecision(FALSE, "auto_skip_enabled", TRUE)
  ELSE IF Len(extractionResult.goals) = 0 THEN PromptDecision(FALSE, "no_goals", TRUE)
  ELSE PromptDecision(TRUE, "goals_found", FALSE)

\* mutant: the safety valve is not looked at
ShouldPromptUser_IgnoresSafetyValve(extractionResult, cfg, isSafetyValve) ==
  IF extractionResult.error = "timeout" THEN PromptDecision(FALSE, "extraction_timeout", TRUE)
  ELSE IF Len(extractionResult.goals) = 0 THEN PromptDecision(FALSE, "no_goals", TRUE)
  ELSE IF cfg.autoSkip THEN PromptDecision(FALSE, "auto_skip_enabled", TRUE)
  ELSE PromptDecision(TRUE, "goals_found", FALSE)

ShouldPromptUser(extractionResult, cfg, isSafetyValve) ==
  IF isSafetyValve THEN PromptDecision(FALSE, "safety_valve", TRUE)
  ELSE IF extractionResult.error = "timeout" THEN PromptDecision(FALSE, "extraction_timeout", TRUE)
  ELSE IF Len(extractionResult.goals) = 0 THEN PromptDecision(FALSE, "no_goals", TRUE)
  ELSE IF cfg.autoSkip THEN PromptDecision(FALSE, "auto_skip_enabled", TRUE)
  ELSE PromptDecision(TRUE, "goals_found", FALSE)

\* DeliberateCompressionOrchestrator.prepareDeliberateCompression
PrepareDeliberateCompression(extractionResult, cfg, isSafetyValve) ==
  LET promptDecision == ShouldPromptUser(extractionResult, cfg, isSafetyValve)
  IN IF ~cfg.deliberateEnabled
     THEN [shouldPromptUser |-> FALSE, extractedGoals |-> <<>>, skipReason |-> "disabled"]
     ELSE IF ~promptDecision.shouldPrompt
     THEN [shouldPromptUser |-> FALSE, extractedGoals |-> <<>>, skipReason |-> promptDecision.reason]
     ELSE [shouldPromptUser |-> TRUE, extractedGoals |-> extractionResult.goals, skipReason |-> Null]

\* Math.round(n / d) for n >= 0, d > 0
MathRound(n, d) == (2 * n + d) \div (2 * d)

Min(a, b) == IF a < b THEN a ELSE b

\* mutant: the products are truncated instead of rounded
ConfigAfterSelection_Truncates(cfg, selection) ==
  IF selection = "disable" THEN [cfg EXCEPT !.interactive = FALSE]
  ELSE IF selection = "less_frequent"
  THEN [cfg EXCEPT
          !.triggerTokens = Min((cfg.triggerTokens * cfg.frequencyMultiplier) \div 10, MaxTriggerTokens),
          !.minMessages = Min((cfg.minMessages * cfg.frequencyMultiplier) \div 10, MaxMinMessages)]
  ELSE cfg

\* the configuration after GeminiClient.handleCompressionSelection(selection)
ConfigAfterSelection(cfg, selection) ==
  IF selection = "disable" THEN [cfg EXCEPT !.interactive = FALSE]
  ELSE IF selection = "less_frequent"
  THEN [cfg EXCEPT
          !.triggerTokens = Min(MathRound(cfg.triggerTokens * cfg.frequencyMultiplier, 10), MaxTriggerTokens),
          !.minMessages = Min(MathRound(cfg.minMessages * cfg.frequencyMultiplier, 10), MaxMinMessages)]
  ELSE cfg

\* mutant: a selected goal is treated like 'auto'
HandleCompressionSelection_GoalDropped(selection) ==
  CreateCompressionOptions("auto")

\* the options GeminiClient.handleCompressionSelection(selection) returns
HandleCompressionSelection(selection) ==
  IF selection \in {"disable", "less_frequent", "auto", Null}
  THEN CreateCompressionOptions("auto")
  ELSE CreateCompressionOptions(selection)

ExtractionResults ==
  {[goals |-> <<>>, error |-> Null],
   [goals |-> <<>>, error |-> "timeout"],
   [goals |-> <<>>, error |-> "extraction_failed"]}
  \cup {[goals |-> <<g>>, error |-> Null] : g \in Goals}

\* --------------------------------------------------------------- GoalExtractor
\* the text of a model response, as a sequence of pieces: the two tags, a
\* whitespace character, or a run of n other characters
OpenTag == [kind |-> "open", chars |-> 6]
CloseTag == [kind |-> "close", chars |-> 7]
Space == [kind |-> "space", chars |-> 1]
Text(n) == [kind |-> "text", chars |-> n]

\* String.prototype.trim
RECURSIVE Trim(_)
Trim(text) ==
  IF text = <<>> THEN <<>>
  ELSE IF Head(text).kind = "space" THEN Trim(Tail(text))
  ELSE IF text[Len(text)].kind = "space" THEN Trim(SubSeq(text, 1, Len(text) - 1))
  ELSE text

\* parseGoals: the matches of /<goal>\s*(.*?)\s*<\/goal>/gs from left to right,
\* each from an opening tag to the first closing tag after it, trimmed, the
\* empty ones dropped
RECURSIVE ParseGoals(_)
ParseGoals(text) ==
  LET opens == {i \in 1..Len(text) : text[i].kind = "open"}
  IN IF opens = {} THEN <<>>
     ELSE LET i == CHOOSE x \in opens : \A y \in opens : x <= y
              closes == {j \in (i + 1)..Len(text) : text[j].kind = "close"}
          IN IF closes = {} THEN <<>>
             ELSE LET j == CHOOSE x \in closes : \A y \in closes : x <= y
                      goal == Trim(SubSeq(text, i + 1, j - 1))
                      rest == ParseGoals(SubSeq(text, j + 1, Len(text)))
                  IN IF goal = <<>> THEN rest ELSE <<goal>> \o rest

\* mutant: a goal of exactly 30 characters counts as detailed
DetermineConfidence_Inclusive(goals) ==
  IF Len(goals) = 0 THEN "none"
  ELSE IF Len(goals) = 1 /\ TotalChars(goals[1]) >= 30 THEN "high"
  ELSE IF Len(goals) >= 2 THEN "medium"
  ELSE "low"

\* determineConfidence; goals[0].length is the number of characters
DetermineConfidence(goals) ==
  IF Len(goals) = 0 THEN "none"
  ELSE IF Len(goals) = 1 /\ TotalChars(goals[1]) > 30 THEN "high"
  ELSE IF Len(goals) >= 2 THEN "medium"
  ELSE "low"

GoalExtractionResult(goals, confidence, error) ==
  [goals |-> goals, confidence |-> confidence, error |-> error]

\* the try block of extractGoals after the race was won by the response
ExtractedFrom(text) ==
  GoalExtractionResult(ParseGoals(text), DetermineConfidence(ParseGoals(text)), Null)

\* what a rejected promise may carry: an Error with a message, or another value
Thrown(isError, message) == [isError |-> isError, message |-> message]
TimeoutError == Thrown(TRUE, "Timeout")

\* the catch block of extractGoals
ExtractionFailure(error) ==
  LET isTimeout == error.isError /\ error.message = "Timeout"
  IN GoalExtractionResult(<<>>, "none", IF isTimeout THEN "timeout" ELSE "extraction_failed")

\* ---------------------------------------------------------------- state
VARIABLES
  history,                      \* chat.getHistory(true)
  lastPromptTokenCount,         \* chat.getLastPromptTokenCount()
  modelLimit,                   \* tokenLimit(_getEffectiveModelForCurrentTurn())
  hasFailedCompressionAttempt,
  messagesSinceLastCompress,
  lastCompressionTime,
  isCompressing,
  config,
  now,                          \* Date.now()
  proc,                         \* the two callers: position and locals
  lastResult                    \* what tryCompressChat last returned, and to whom

vars == <<history, lastPromptTokenCount, modelLimit, hasFailedCompressionAttempt,
          messagesSinceLastCompress, lastCompressionTime, isCompressing, config, now, proc,
          lastResult>>

NoResult == [caller |-> Null, status |-> Null]
Returned(p, status) == [caller |-> p, status |-> status]

\* extractGoals / shouldPromptUser have not been called
NoExtraction == [goals |-> <<>>, error |-> Null]
NoPromptDecision == PromptDecision(FALSE, Null, FALSE)

\* no prompt was shown, so there is no selection
NoSelection == "unset"

\* no GoalSelectionPrompt is rendered for the caller
NoPrompt ==
  [mounted |-> FALSE, goals |-> <<>>, timeoutSeconds |-> Undefined,
   isSafetyValve |-> "undefined", items |-> <<>>, hasSelectedRef |-> FALSE,
   elapsedTime |-> 0, effectPending |-> FALSE, onSelectCalls |-> <<>>,
   dialogState |-> "none", performed |-> 0]

IdleProc ==
  [pc |-> "idle", force |-> FALSE, options |-> NoOptions, decision |-> NoDecision,
   extractedGoals |-> <<>>, selection |-> NoSelection,
   compressionStatus |-> Null, originalTokenCount |-> 0,
   newTokenCount |-> 0, goalWasSelected |-> "undefined",
   historyToCompress |-> <<>>, historyToKeep |-> <<>>,
   newHistory |-> NullHistory, extraHistory |-> <<>>,
   extractionResult |-> NoExtraction, promptDecision |-> NoPromptDecision,
   prompt |-> NoPrompt,
   call |-> "none", timer |-> "none", deadline |-> 0,
   response |-> <<>>, rejection |-> Thrown(FALSE, Null),
   logged |-> <<>>,
   splitArgument |-> FractionArgument(Undefined),
   splitResult |-> [type |-> "none", splitIndex |-> Undefined,
                    historyToCompress |-> <<>>, historyToKeep |-> <<>>]]

DefaultConfig ==
  [triggerTokens |-> DefaultTriggerTokens, triggerUtilization |-> 50,
   minMessages |-> InitMinMessages, minTimeBetween |-> InitMinTimeBetween,
   interactive |-> TRUE, compressionThreshold |-> Undefined,
   deliberateEnabled |-> TRUE, autoSkip |-> FALSE, frequencyMultiplier |-> 15]

Init ==
  /\ history = <<>>
  /\ lastPromptTokenCount = 0
  /\ modelLimit \in ModelLimits
  /\ hasFailedCompressionAttempt = FALSE
  /\ messagesSinceLastCompress = 0
  /\ lastCompressionTime = 0
  /\ isCompressing = FALSE
  /\ config = DefaultConfig
  /\ now = ClockStart
  /\ proc = [p \in Procs |-> IdleProc]
  /\ lastResult = NoResult

\* the trigger decision in the current state
CurrentDecision ==
  ShouldTriggerCompression(isCompressing, lastPromptTokenCount, modelLimit, config,
                           messagesSinceLastCompress, lastCompressionTime, now)

\* ------------------------------------------------------------- tryCompressChat
\* tryCompressChat(prompt_id, force, options) up to its first suspension:
\* the lock is taken and compress() runs to its NOOP return or to the
\* summarization request; selection is the caller's local that stays live
\* across the call
TryCompressChatStart(p, force, options, cfg, selection) ==
  LET r == CompressStart(history, lastPromptTokenCount, force, modelLimit, cfg,
                         hasFailedCompressionAttempt, options)
  IN /\ isCompressing' = TRUE
     /\ proc' = [proc EXCEPT ![p] =
          [IdleProc EXCEPT
             !.pc = IF r.compressionStatus = "NOOP" THEN "returning" ELSE "summarizing",
             !.force = force, !.options = options,
             !.selection = selection,
             !.compressionStatus = r.compressionStatus,
             !.originalTokenCount = r.originalTokenCount,
             !.newTokenCount = r.newTokenCount,
             !.historyToCompress = r.historyToCompress,
             !.historyToKeep = r.historyToKeep]]

\* the /compress command and other direct callers
CompressCommand(force, options) ==
  /\ proc["cmd"].pc = "idle"
  /\ TryCompressChatStart("cmd", force, options, config, NoSelection)
  /\ UNCHANGED <<history, lastPromptTokenCount, modelLimit, hasFailedCompressionAttempt,
                 messagesSinceLastCompress, lastCompressionTime, config, now, lastResult>>

\* generateContent resolves with the summary; compress() builds extraHistory and
\* asks for the token count of the full new history
SummaryResolves(p, summaryChars) ==
  /\ proc[p].pc = "summarizing"
  /\ proc' = [proc EXCEPT ![p].pc = "counting",
                          ![p].newHistory = ExtraHistory(summaryChars, proc[p].historyToKeep)]
  /\ UNCHANGED <<history, lastPromptTokenCount, modelLimit, hasFailedCompressionAttempt,
                 messagesSinceLastCompress, lastCompressionTime, isCompressing, config, now, lastResult>>

\* mutant: the failure result still carries the built history
CountResolves_KeepsHistory(p, newTokenCount) ==
  /\ proc[p].pc = "counting"
  /\ LET status == ValidateTokenCount(proc[p].originalTokenCount, newTokenCount)
     IN proc' = [proc EXCEPT ![p].pc = "returning",
                             ![p].newTokenCount = newTokenCount,
                             ![p].goalWasSelected = GoalWasSelected(proc[p].options),
                             ![p].compressionStatus = status]
  /\ UNCHANGED <<history, lastPromptTokenCount, modelLimit, hasFailedCompressionAttempt,
                 messagesSinceLastCompress, lastCompressionTime, isCompressing, config, now, lastResult>>

\* calculateRequestTokenCount resolves; compress() logs the telemetry event,
\* validates and returns
CountResolves(p, newTokenCount) ==
  /\ proc[p].pc = "counting"
  /\ LET status == ValidateTokenCount(proc[p].originalTokenCount, newTokenCount)
     IN proc' = [proc EXCEPT ![p].pc = "returning",
                             ![p].newTokenCount = newTokenCount,
                             ![p].logged = Append(proc[p].logged,
                                ChatCompressionEvent(proc[p].originalTokenCount, newTokenCount,
                                                     proc[p].options, proc[p].historyToKeep,
                                                     proc[p].historyToCompress)),
                             ![p].goalWasSelected = GoalWasSelected(proc[p].options),
                             ![p].compressionStatus = status,
                             ![p].newHistory = IF status = "COMPRESSED" THEN proc[p].newHistory
                                               ELSE NullHistory]
  /\ UNCHANGED <<history, lastPromptTokenCount, modelLimit, hasFailedCompressionAttempt,
                 messagesSinceLastCompress, lastCompressionTime, isCompressing, config, now, lastResult>>

\* mutant: the lock is released after the try block instead of in finally
CompressThrows_NoFinally(p) ==
  /\ proc[p].pc \in {"summarizing", "counting"}
  /\ proc' = [proc EXCEPT ![p] = IdleProc]
  /\ lastResult' = Returned(p, "error")
  /\ UNCHANGED <<history, lastPromptTokenCount, modelLimit, hasFailedCompressionAttempt,
                 messagesSinceLastCompress, lastCompressionTime, isCompressing, config, now>>

\* the summarization call, the token count or getInitialChatHistory rejects:
\* compress() throws, the finally block of tryCompressChat runs
CompressThrows(p) ==
  /\ proc[p].pc \in {"summarizing", "counting"}
  /\ isCompressing' = FALSE
  /\ proc' = [proc EXCEPT ![p] = IdleProc]
  /\ lastResult' = Returned(p, "error")
  /\ UNCHANGED <<history, lastPromptTokenCount, modelLimit, hasFailedCompressionAttempt,
                 messagesSinceLastCompress, lastCompressionTime, config, now>>

\* mutant: the tracking state is updated for every result that ran the summarization
CompressReturns_ResetsCountersOnFailure(p) ==
  /\ proc[p].pc = "returning"
  /\ LET status == proc[p].compressionStatus
         restart == status = "COMPRESSED" /\ proc[p].newHistory # NullHistory
         failed == status = "COMPRESSION_FAILED_INFLATED_TOKEN_COUNT"
     IN /\ hasFailedCompressionAttempt' =
             IF failed THEN (~proc[p].force /\ TRUE)
             ELSE IF restart THEN FALSE
             ELSE hasFailedCompressionAttempt
        /\ isCompressing' = IF restart THEN isCompressing ELSE FALSE
        /\ proc' = IF restart THEN [proc EXCEPT ![p].pc = "restarting"]
                   ELSE [proc EXCEPT ![p] = IdleProc]
        /\ lastResult' = IF restart THEN lastResult ELSE Returned(p, status)
        /\ messagesSinceLastCompress' = IF failed THEN 0 ELSE messagesSinceLastCompress
        /\ lastCompressionTime' = IF failed THEN now ELSE lastCompressionTime
  /\ UNCHANGED <<history, lastPromptTokenCount, modelLimit, config, now>>

\* mutant: a NOOP result counts as a compaction for the guards
CompressReturns_NoopResetsCounters(p) ==
  /\ proc[p].pc = "returning"
  /\ LET status == proc[p].compressionStatus
         restart == status = "COMPRESSED" /\ proc[p].newHistory # NullHistory
     IN /\ hasFailedCompressionAttempt' =
             IF status = "COMPRESSION_FAILED_INFLATED_TOKEN_COUNT" THEN (~proc[p].force /\ TRUE)
             ELSE IF restart THEN FALSE
             ELSE hasFailedCompressionAttempt
        /\ isCompressing' = IF restart THEN isCompressing ELSE FALSE
        /\ proc' = IF restart THEN [proc EXCEPT ![p].pc = "restarting"]
                   ELSE [proc EXCEPT ![p] = IdleProc]
        /\ lastResult' = IF restart THEN lastResult ELSE Returned(p, status)
        /\ messagesSinceLastCompress' = IF status = "NOOP" THEN 0 ELSE messagesSinceLastCompress
        /\ lastCompressionTime' = IF status = "NOOP" THEN now ELSE lastCompressionTime
  /\ UNCHANGED <<history, lastPromptTokenCount, modelLimit, config, now>>

\* mutant: a NOOP result clears the sticky failure flag
CompressReturns_NoopClearsFailure(p) ==
  /\ proc[p].pc = "returning"
  /\ LET status == proc[p].compressionStatus
         restart == status = "COMPRESSED" /\ proc[p].newHistory # NullHistory
     IN /\ hasFailedCompressionAttempt' =
             IF status = "COMPRESSION_FAILED_INFLATED_TOKEN_COUNT" THEN (~proc[p].force /\ TRUE)
             ELSE FALSE
        /\ isCompressing' = IF restart THEN isCompressing ELSE FALSE
        /\ proc' = IF restart THEN [proc EXCEPT ![p].pc = "restarting"]
                   ELSE [proc EXCEPT ![p] = IdleProc]
        /\ lastResult' = IF restart THEN lastResult ELSE Returned(p, status)
  /\ UNCHANGED <<history, lastPromptTokenCount, modelLimit,
                 messagesSinceLastCompress, lastCompressionTime, config, now>>

\* tryCompressChat continues after `await compress(...)`; on COMPRESSED with a
\* new history startChat(newHistory) runs up to `await getInitialChatHistory`
CompressReturns(p) ==
  /\ proc[p].pc = "returning"
  /\ LET status == proc[p].compressionStatus
         restart == status = "COMPRESSED" /\ proc[p].newHistory # NullHistory
     IN /\ hasFailedCompressionAttempt' =
             IF status = "COMPRESSION_FAILED_INFLATED_TOKEN_COUNT" THEN (~proc[p].force /\ TRUE)
             ELSE IF restart THEN FALSE
             ELSE hasFailedCompressionAttempt
        /\ isCompressing' = IF restart THEN isCompressing ELSE FALSE
        /\ proc' = IF restart THEN [proc EXCEPT ![p].pc = "restarting"]
                   ELSE [proc EXCEPT ![p] = IdleProc]
        /\ lastResult' = IF restart THEN lastResult ELSE Returned(p, status)
  /\ UNCHANGED <<history, lastPromptTokenCount, modelLimit,
                 messagesSinceLastCompress, lastCompressionTime, config, now>>

\* mutant: a successful compaction leaves the guard counters as they are
RestartResolves_KeepsCounters(p, newChatTokenCount) ==
  /\ proc[p].pc = "restarting"
  /\ history' = GetInitialChatHistory(proc[p].newHistory)
  /\ lastPromptTokenCount' = newChatTokenCount
  /\ isCompressing' = FALSE
  /\ proc' = [proc EXCEPT ![p] = IdleProc]
  /\ lastResult' = Returned(p, "COMPRESSED")
  /\ UNCHANGED <<modelLimit, hasFailedCompressionAttempt, messagesSinceLastCompress,
                 lastCompressionTime, config, now>>

\* startChat(newHistory) resolves: the chat is replaced, the guard counters
\* are updated, the info is returned
RestartResolves(p, newChatTokenCount) ==
  /\ proc[p].pc = "restarting"
  /\ history' = GetInitialChatHistory(proc[p].newHistory)
  /\ lastPromptTokenCount' = newChatTokenCount
  /\ messagesSinceLastCompress' = 0
  /\ lastCompressionTime' = now
  /\ isCompressing' = FALSE
  /\ proc' = [proc EXCEPT ![p] = IdleProc]
  /\ lastResult' = Returned(p, "COMPRESSED")
  /\ UNCHANGED <<modelLimit, hasFailedCompressionAttempt, config, now>>

\* startChat(newHistory) throws ("Failed to initialize chat")
RestartThrows(p) ==
  /\ proc[p].pc = "restarting"
  /\ isCompressing' = FALSE
  /\ proc' = [proc EXCEPT ![p] = IdleProc]
  /\ lastResult' = Returned(p, "error")
  /\ UNCHANGED <<history, lastPromptTokenCount, modelLimit, hasFailedCompressionAttempt,
                 messagesSinceLastCompress, lastCompressionTime, config, now>>

\* ------------------------------------------------------ resetChat, resumeChat
\* the saved conversations resumeChat may be given
ResumedHistories == {<<UserMsg(1), ModelMsg(1)>>}

\* startChat(extraHistory) up to `await getInitialChatHistory`, as resetChat
\* and resumeChat call it: the sticky failure flag is cleared at once
StartChat(extraHistory) ==
  /\ proc["cmd"].pc = "idle"
  /\ hasFailedCompressionAttempt' = FALSE
  /\ proc' = [proc EXCEPT !["cmd"] = [IdleProc EXCEPT !.pc = "starting",
                                                       !.extraHistory = extraHistory]]
  /\ UNCHANGED <<history, lastPromptTokenCount, modelLimit, messagesSinceLastCompress,
                 lastCompressionTime, isCompressing, config, now, lastResult>>

ResetChat == StartChat(<<>>)

ResumeChat(resumedHistory) == StartChat(resumedHistory)

\* startChat resolves inside resetChat / resumeChat: the chat is replaced; a
\* chat without history starts with the token count of a new session
ChatStarted(newChatTokenCount) ==
  /\ proc["cmd"].pc = "starting"
  /\ proc["cmd"].extraHistory = <<>> => newChatTokenCount = 0
  /\ proc["cmd"].extraHistory # <<>> => newChatTokenCount # 0
  /\ history' = GetInitialChatHistory(proc["cmd"].extraHistory)
  /\ lastPromptTokenCount' = newChatTokenCount
  /\ proc' = [proc EXCEPT !["cmd"] = IdleProc]
  /\ UNCHANGED <<modelLimit, hasFailedCompressionAttempt, messagesSinceLastCompress,
                 lastCompressionTime, isCompressing, config, now, lastResult>>

\* startChat throws inside resetChat / resumeChat: the old chat stays
ChatStartThrows ==
  /\ proc["cmd"].pc = "starting"
  /\ proc' = [proc EXCEPT !["cmd"] = IdleProc]
  /\ UNCHANGED <<history, lastPromptTokenCount, modelLimit, hasFailedCompressionAttempt,
                 messagesSinceLastCompress, lastCompressionTime, isCompressing, config, now,
                 lastResult>>

\* ----------------------------------------------------------- sendMessageStream
\* a top-level sendMessageStream call: the message counter is incremented, then
\* the call either returns early (session turn limit, context overflow, loop
\* detected) or sends the request
SendMessageStream(earlyReturn, chars) ==
  /\ proc["turn"].pc = "idle"
  /\ messagesSinceLastCompress < MaxMessages
  /\ messagesSinceLastCompress' = messagesSinceLastCompress + 1
  /\ IF earlyReturn
     THEN /\ proc' = [proc EXCEPT !["turn"] = IdleProc]
          /\ UNCHANGED history
     ELSE /\ Len(history) + 2 <= MaxHistory
          /\ history' = Append(history,
                IF Len(history) > 0 /\ history[Len(history)].functionCall
                THEN ToolResultMsg(chars) ELSE UserMsg(chars))
          /\ proc' = [proc EXCEPT !["turn"] = [IdleProc EXCEPT !.pc = "streaming"]]
  /\ UNCHANGED <<lastPromptTokenCount, modelLimit, hasFailedCompressionAttempt,
                 lastCompressionTime, isCompressing, config, now, lastResult>>

\* the response stream ends: the model message is recorded and the prompt token
\* count updated; an Error event returns the turn at once
StreamResponse(outcome, chars, tokens) ==
  /\ proc["turn"].pc = "streaming"
  /\ IF outcome = "error"
     THEN /\ proc' = [proc EXCEPT !["turn"] = IdleProc]
          /\ UNCHANGED <<history, lastPromptTokenCount>>
     ELSE /\ history' = Append(history,
                IF outcome = "toolCall" THEN ToolCallMsg(chars) ELSE ModelMsg(chars))
          /\ lastPromptTokenCount' = tokens
          /\ proc' = [proc EXCEPT !["turn"] =
                [IdleProc EXCEPT !.pc = IF outcome = "toolCall" THEN "idle" ELSE "postResponse"]]
  /\ UNCHANGED <<modelLimit, hasFailedCompressionAttempt, messagesSinceLastCompress,
                 lastCompressionTime, isCompressing, config, now, lastResult>>

\* mutant: the interactive setting is not consulted
HandlePostResponseCompression_IgnoresInteractive ==
  /\ proc["turn"].pc = "postResponse"
  /\ LET d == CurrentDecision
     IN IF ~d.shouldCompress
        THEN proc' = [proc EXCEPT !["turn"] = IdleProc]
        ELSE proc' = [proc EXCEPT !["turn"] =
                   [IdleProc EXCEPT !.pc = "extracting", !.decision = d]]
  /\ UNCHANGED <<history, lastPromptTokenCount, modelLimit, hasFailedCompressionAttempt,
                 messagesSinceLastCompress, lastCompressionTime, isCompressing, config, now,
                 lastResult>>

\* handlePostResponseCompression up to its first suspension
HandlePostResponseCompression ==
  /\ proc["turn"].pc = "postResponse"
  /\ LET d == CurrentDecision
     IN IF ~d.shouldCompress
        THEN /\ proc' = [proc EXCEPT !["turn"] = IdleProc]
             /\ UNCHANGED isCompressing
        ELSE IF config.interactive
        THEN /\ proc' = [proc EXCEPT !["turn"] =
                   [IdleProc EXCEPT !.pc = "extracting", !.decision = d]]
             /\ UNCHANGED isCompressing
        ELSE TryCompressChatStart("turn", TRUE, CreateCompressionOptions("auto"), config, NoSelection)
  /\ UNCHANGED <<history, lastPromptTokenCount, modelLimit, hasFailedCompressionAttempt,
                 messagesSinceLastCompress, lastCompressionTime, config, now, lastResult>>

\* prepareDeliberateCompression resolves; without a prompt the attempt starts
PrepareResolves(extractionResult) ==
  /\ proc["turn"].pc = "extracting"
  /\ LET prep == PrepareDeliberateCompression(extractionResult, config,
                                           proc["turn"].decision.isSafetyValve)
     IN IF prep.shouldPromptUser /\ Len(prep.extractedGoals) > 0
        THEN /\ proc' = [proc EXCEPT !["turn"].pc = "prompting",
                                     !["turn"].extractionResult = extractionResult,
                                     !["turn"].extractedGoals = prep.extractedGoals]
             /\ UNCHANGED isCompressing
        ELSE TryCompressChatStart("turn", TRUE, CreateCompressionOptions("auto"), config, NoSelection)
  /\ UNCHANGED <<history, lastPromptTokenCount, modelLimit, hasFailedCompressionAttempt,
                 messagesSinceLastCompress, lastCompressionTime, config, now, lastResult>>

\* what onShowCompressionPrompt may resolve with
Selections(goals) ==
  {goals[i] : i \in 1..Len(goals)} \cup {"auto", "disable", "less_frequent", Null}

\* mutant: an opt-out changes the configuration and ends the flow
PromptResolves_OptOutAborts(selection) ==
  /\ proc["turn"].pc = "prompting"
  /\ selection \in Selections(proc["turn"].extractedGoals)
  /\ selection = "less_frequent" => config.triggerTokens < MaxRelaxedTriggerTokens
  /\ config' = ConfigAfterSelection(config, selection)
  /\ IF selection \in {"disable", "less_frequent"}
     THEN proc' = [proc EXCEPT !["turn"] = IdleProc] /\ UNCHANGED isCompressing
     ELSE TryCompressChatStart("turn", TRUE, HandleCompressionSelection(selection), config', selection)
  /\ UNCHANGED <<history, lastPromptTokenCount, modelLimit, hasFailedCompressionAttempt,
                 messagesSinceLastCompress, lastCompressionTime, now, lastResult>>

\* onShowCompressionPrompt resolves: handleCompressionSelection, then the attempt
PromptResolves(selection) ==
  /\ proc["turn"].pc = "prompting"
  /\ selection \in Selections(proc["turn"].extractedGoals)
  /\ selection = "less_frequent" => config.triggerTokens < MaxRelaxedTriggerTokens
  /\ config' = ConfigAfterSelection(config, selection)
  /\ TryCompressChatStart("turn", TRUE, HandleCompressionSelection(selection), config', selection)
  /\ UNCHANGED <<history, lastPromptTokenCount, modelLimit, hasFailedCompressionAttempt,
                 messagesSinceLastCompress, lastCompressionTime, now, lastResult>>

\* time passes
Tick ==
  /\ now + TickMs <= MaxClock
  /\ now' = now + TickMs
  /\ UNCHANGED <<history, lastPromptTokenCount, modelLimit, hasFailedCompressionAttempt,
                 messagesSinceLastCompress, lastCompressionTime, isCompressing, config, proc, lastResult>>

\* the /compress command passes no options
CommandOptions == {NoOptions}

Next ==
  \/ \E e \in BOOLEAN, c \in MessageChars : SendMessageStream(e, c)
  \/ \E o \in {"error", "toolCall", "text"}, c \in MessageChars, t \in TokenLevels :
        StreamResponse(o, c, t)
  \/ HandlePostResponseCompression
  \/ \E x \in ExtractionResults : PrepareResolves(x)
  \/ \E s \in Goals \cup {"auto", "disable", "less_frequent", Null} : PromptResolves(s)
  \/ \E f \in BOOLEAN, o \in CommandOptions : CompressCommand(f, o)
  \/ \E p \in Procs, c \in MessageChars : SummaryResolves(p, c)
  \/ \E p \in Procs, t \in CountLevels : CountResolves(p, t)
  \/ \E p \in Procs : CompressThrows(p)
  \/ \E p \in Procs : CompressReturns(p)
  \/ \E p \in Procs, t \in TokenLevels : RestartResolves(p, t)
  \/ \E p \in Procs : RestartThrows(p)
  \/ ResetChat
  \/ \E h \in ResumedHistories : ResumeChat(h)
  \/ \E t \in TokenLevels \cup {0} : ChatStarted(t)
  \/ ChatStartThrows
  \/ Tick

Spec == Init /\ [][Next]_vars

\* ------------------------------------------------- the trigger as a function
\* inputs of shouldTriggerCompression: token usage, guard state, configuration
TriggerTokenInputs == {0, 39999, 40000, 45000, 499999, 500000, 520000}
TriggerUtilizationInputs == {50, 90}
TriggerTokensInputs == {40000, 60000}
MessagesInputs == {0, 2, 20, 25}
MinMessagesInputs == {0, 25}
MinTimeInputs == {0, 300}
LastCompressionTimeInputs == {0, 1000, 2000, 301000}
NowInputs == {301000, 302000}

TriggerInit ==
  /\ history = <<>>
  /\ lastPromptTokenCount \in TriggerTokenInputs
  /\ modelLimit \in ModelLimits
  /\ hasFailedCompressionAttempt = FALSE
  /\ messagesSinceLastCompress \in MessagesInputs
  /\ lastCompressionTime \in LastCompressionTimeInputs
  /\ isCompressing \in BOOLEAN
  /\ config \in {[DefaultConfig EXCEPT !.triggerTokens = t, !.triggerUtilization = u,
                                       !.minMessages = m, !.minTimeBetween = s] :
                   t \in TriggerTokensInputs, u \in TriggerUtilizationInputs,
                   m \in MinMessagesInputs, s \in MinTimeInputs}
  /\ now \in NowInputs
  /\ proc = [p \in Procs |-> IdleProc]
  /\ lastResult = NoResult

\* a caller awaits shouldTriggerCompression() and receives the decision
EvaluateTrigger ==
  /\ proc["turn"].pc = "idle"
  /\ proc' = [proc EXCEPT !["turn"] = [IdleProc EXCEPT !.pc = "evaluated", !.decision = CurrentDecision]]
  /\ UNCHANGED <<history, lastPromptTokenCount, modelLimit, hasFailedCompressionAttempt,
                 messagesSinceLastCompress, lastCompressionTime, isCompressing, config, now,
                 lastResult>>

TriggerNext == EvaluateTrigger

TriggerSpec == TriggerInit /\ [][TriggerNext]_vars

Evaluated == proc["turn"].pc = "evaluated"
EvaluatedDecision == proc["turn"].decision
UtilizationReached == lastPromptTokenCount * 100 >= config.triggerUtilization * modelLimit

\* C3: safety valve dominance. With no compaction in progress and utilization
\* at or above triggerUtilization, the decision is shouldCompress = true,
\* isSafetyValve = true, reason = utilization_threshold, whatever the message
\* counter, the last compaction time and the guard configuration are.
SafetyValveDominance ==
  (Evaluated /\ ~isCompressing /\ UtilizationReached) =>
     /\ EvaluatedDecision.shouldCompress
     /\ EvaluatedDecision.isSafetyValve
     /\ EvaluatedDecision.reason = "utilization_threshold"

\* the scenario of the specification: 520000 of 1000000 tokens, threshold 0.5,
\* 2 messages since the last compaction, both guards failing
SafetyValveScenario ==
  /\ Evaluated /\ ~isCompressing
  /\ lastPromptTokenCount = 520000 /\ modelLimit = 1000000
  /\ config.triggerUtilization = 50
  /\ messagesSinceLastCompress = 2 /\ config.minMessages = 25
  /\ lastCompressionTime = 301000 /\ now = 301000 /\ config.minTimeBetween = 300
  /\ EvaluatedDecision.isSafetyValve

\* C4: the decision table of the trigger, first matching row wins; the time
\* guard never blocks while lastCompressionTime is 0.
ElapsedTooShort ==
  lastCompressionTime > 0 /\ now - lastCompressionTime < config.minTimeBetween * MsPerSecond

TriggerDecisionTable ==
  Evaluated =>
    /\ isCompressing =>
         EvaluatedDecision = Decision(FALSE, "compression_in_progress", FALSE)
    /\ (~isCompressing /\ UtilizationReached) =>
         EvaluatedDecision = Decision(TRUE, "utilization_threshold", TRUE)
    /\ (~isCompressing /\ ~UtilizationReached /\ lastPromptTokenCount < config.triggerTokens) =>
         EvaluatedDecision = Decision(FALSE, "below_token_threshold", FALSE)
    /\ (~isCompressing /\ ~UtilizationReached /\ lastPromptTokenCount >= config.triggerTokens
          /\ messagesSinceLastCompress < config.minMessages) =>
         EvaluatedDecision = Decision(FALSE, "message_guard_failed", FALSE)
    /\ (~isCompressing /\ ~UtilizationReached /\ lastPromptTokenCount >= config.triggerTokens
          /\ messagesSinceLastCompress >= config.minMessages /\ ElapsedTooShort) =>
         EvaluatedDecision = Decision(FALSE, "time_guard_failed", FALSE)
    /\ (~isCompressing /\ ~UtilizationReached /\ lastPromptTokenCount >= config.triggerTokens
          /\ messagesSinceLastCompress >= config.minMessages /\ ~ElapsedTooShort) =>
         EvaluatedDecision = Decision(TRUE, "absolute_tokens", FALSE)
    /\ lastCompressionTime = 0 => EvaluatedDecision.reason # "time_guard_failed"

\* the scenario of the specification: 45000 tokens over a trigger of 40000,
\* 20 messages under a minimum of 25: the message guard blocks
MessageGuardScenario ==
  /\ Evaluated /\ ~isCompressing
  /\ lastPromptTokenCount = 45000 /\ config.triggerTokens = 40000
  /\ messagesSinceLastCompress = 20 /\ config.minMessages = 25
  /\ EvaluatedDecision = Decision(FALSE, "message_guard_failed", FALSE)

\* ------------------------------------------------- the prompt flow by itself
\* handlePostResponseCompression without the attempt it ends with: trigger
\* evaluation, shouldPromptUser, handleCompressionSelection, over the
\* configurations a session may have
RelaxationStarts == {<<40000, 25>>, <<10000, 5>>, <<150000, 70>>, <<200000, 100>>}
FrequencyMultipliers == {12, 15}
SelectionTokenInputs == {45000, 499999, 520000}

SelectionInit ==
  /\ history = <<>>
  /\ lastPromptTokenCount \in SelectionTokenInputs
  /\ modelLimit \in ModelLimits
  /\ hasFailedCompressionAttempt = FALSE
  /\ messagesSinceLastCompress = MaxMinMessages
  /\ lastCompressionTime = 0
  /\ isCompressing = FALSE
  /\ config \in {[DefaultConfig EXCEPT !.triggerTokens = s[1], !.minMessages = s[2],
                                       !.autoSkip = a, !.frequencyMultiplier = f] :
                   s \in RelaxationStarts, a \in BOOLEAN, f \in FrequencyMultipliers}
  /\ now = ClockStart
  /\ proc = [p \in Procs |-> IdleProc]
  /\ lastResult = NoResult

\* goal extraction has resolved and shouldPromptUser is asked
DecidePrompt(extractionResult) ==
  /\ proc["turn"].pc = "evaluated"
  /\ proc["turn"].decision.shouldCompress
  /\ config.interactive /\ config.deliberateEnabled
  /\ proc' = [proc EXCEPT !["turn"].pc = "decided",
                          !["turn"].extractionResult = extractionResult,
                          !["turn"].promptDecision =
                             ShouldPromptUser(extractionResult, config,
                                              proc["turn"].decision.isSafetyValve)]
  /\ UNCHANGED <<history, lastPromptTokenCount, modelLimit, hasFailedCompressionAttempt,
                 messagesSinceLastCompress, lastCompressionTime, isCompressing, config, now,
                 lastResult>>

\* the prompt resolves and handleCompressionSelection runs
ApplySelection(selection) ==
  /\ proc["turn"].pc = "decided"
  /\ proc["turn"].promptDecision.shouldPrompt
  /\ selection \in Selections(proc["turn"].extractionResult.goals)
  /\ config' = ConfigAfterSelection(config, selection)
  /\ proc' = [proc EXCEPT !["turn"] =
        [IdleProc EXCEPT !.pc = "selected", !.selection = selection,
                         !.options = HandleCompressionSelection(selection)]]
  /\ UNCHANGED <<history, lastPromptTokenCount, modelLimit, hasFailedCompressionAttempt,
                 messagesSinceLastCompress, lastCompressionTime, isCompressing, now,
                 lastResult>>

\* the flow is over; the next response is evaluated under the new configuration
FlowEnds ==
  /\ proc["turn"].pc = "selected"
  /\ proc' = [proc EXCEPT !["turn"] = IdleProc]
  /\ UNCHANGED <<history, lastPromptTokenCount, modelLimit, hasFailedCompressionAttempt,
                 messagesSinceLastCompress, lastCompressionTime, isCompressing, config, now,
                 lastResult>>

SelectionNext ==
  \/ EvaluateTrigger
  \/ \E x \in ExtractionResults : DecidePrompt(x)
  \/ \E s \in Goals \cup {"auto", "disable", "less_frequent", Null} : ApplySelection(s)
  \/ FlowEnds

SelectionSpec == SelectionInit /\ [][SelectionNext]_vars

IsRounded(r, n, d) == (2 * r - 1) * d <= 2 * n /\ 2 * n < (2 * r + 1) * d
IsCappedProduct(r, x, m, cap) ==
  \E q \in 0..(x * m) : IsRounded(q, x * m, 10) /\ r = (IF q < cap THEN q ELSE cap)

LessFrequentStep ==
  /\ proc["turn"].pc = "decided" /\ proc'["turn"].pc = "selected"
  /\ proc'["turn"].selection = "less_frequent"

SplitChars == {3, 7}
SplitMessages ==
  UNION {{UserMsg(c), ModelMsg(c), ToolCallMsg(c), ToolResultMsg(c)} : c \in SplitChars}
\* ten alternating user / model messages followed by nothing: the last user
\* message is at index 8
AlternatingHistory == [i \in 1..10 |-> IF i % 2 = 1 THEN UserMsg(3) ELSE ModelMsg(3)]
\* every short history, the alternating one, and a turn that ends after a tool
\* call: five messages, the function call, its response, the model's answer
SplitHistories ==
  UNION {[1..n -> SplitMessages] : n \in 0..MaxSplitLen}
  \cup {AlternatingHistory,
        SubSeq(AlternatingHistory, 1, 5) \o <<ToolCallMsg(3), ToolResultMsg(3), ModelMsg(3)>>}
SplitArguments ==
  {FractionArgument(f) : f \in {50, 70, 100}}
  \cup {OptionsArgument("since-last-prompt", m, Undefined) : m \in {Undefined, 0, 2}}
  \cup {OptionsArgument("percentage", Undefined, t) : t \in {Undefined, 50}}

SplitInit ==
  /\ history \in SplitHistories
  /\ lastPromptTokenCount = 0
  /\ modelLimit \in ModelLimits
  /\ hasFailedCompressionAttempt = FALSE
  /\ messagesSinceLastCompress = 0
  /\ lastCompressionTime = 0
  /\ isCompressing = FALSE
  /\ config = DefaultConfig
  /\ now = ClockStart
  /\ proc = [p \in Procs |-> IdleProc]
  /\ lastResult = NoResult

\* a caller applies findCompressSplitPoint to the curated history
FindSplit(fractionOrOptions) ==
  /\ proc["turn"].pc = "idle"
  /\ proc' = [proc EXCEPT !["turn"].pc = "split",
                          !["turn"].splitArgument = fractionOrOptions,
                          !["turn"].splitResult = FindCompressSplitPoint(history, fractionOrOptions)]
  /\ UNCHANGED <<history, lastPromptTokenCount, modelLimit, hasFailedCompressionAttempt,
                 messagesSinceLastCompress, lastCompressionTime, isCompressing, config, now,
                 lastResult>>

SplitNext == \E a \in SplitArguments : FindSplit(a)

SplitSpec == SplitInit /\ [][SplitNext]_vars

SplitDone == proc["turn"].pc = "split"
SplitArgument == proc["turn"].splitArgument
SplitResult == proc["turn"].splitResult

\* C19: since-last-prompt split: with k the index of the last user-role
\* message (-1 if none) and m = minMessagesToCompress, the result is
\* splitIndex = k, historyToCompress = history[0..k), historyToKeep =
\* history[k..] iff k >= 1 and k >= m, and null otherwise; for m = 5 and the
\* 10-message history with k = 8 it is 8 compressed and 2 kept messages.
SinceLastPromptSplit ==
  (SplitDone /\ SplitArgument.strategy = "since-last-prompt") =>
    LET users == {i \in 0..(Len(history) - 1) : history[i + 1].role = "user"}
        k == IF users = {} THEN Undefined ELSE CHOOSE i \in users : \A j \in users : j <= i
        m == IF SplitArgument.minMessagesToCompress = Undefined THEN 5
             ELSE SplitArgument.minMessagesToCompress
    IN /\ SplitResult.type = "result" <=> (k >= 1 /\ k >= m)
       /\ SplitResult.type # "result" => SplitResult.type = "null"
       /\ SplitResult.type = "result" =>
            /\ SplitResult.splitIndex = k
            /\ SplitResult.historyToCompress = SubSeq(history, 1, k)
            /\ SplitResult.historyToKeep = SubSeq(history, k + 1, Len(history))
       /\ (history = AlternatingHistory /\ m = 5) =>
            /\ Len(SplitResult.historyToCompress) = 8
            /\ Len(SplitResult.historyToKeep) = 2

\* the scenario with ten messages and the default minMessagesToCompress
TenMessageSplit ==
  /\ SplitDone /\ SplitArgument = OptionsArgument("since-last-prompt", Undefined, Undefined)
  /\ Len(history) = 10
  /\ SplitResult.splitIndex = 8

\* C20: percentage split: the result is the smallest index i of a user message
\* without a function response with the weight before i at or above
\* totalWeight x (1 - preserveThreshold); without such an index it is
\* history.length if the last message is a model message without a function
\* call, and else the largest index of a user message without a function
\* response, 0 if there is none.
WeightBefore(i) == TotalChars(SubSeq(history, 1, i))
Boundaries ==
  {i \in 0..(Len(history) - 1) :
     history[i + 1].role = "user" /\ ~history[i + 1].functionResponse}
BoundariesAtTarget(fractionPct) ==
  {i \in Boundaries : WeightBefore(i) * 100 >= TotalChars(history) * fractionPct}
SmallestOf(S) == CHOOSE i \in S : \A j \in S : i <= j
LargestOf(S) == CHOOSE i \in S : \A j \in S : j <= i
ExpectedPercentageSplit(fractionPct) ==
  IF BoundariesAtTarget(fractionPct) # {} THEN SmallestOf(BoundariesAtTarget(fractionPct))
  ELSE IF Len(history) > 0 /\ history[Len(history)].role = "model"
          /\ ~history[Len(history)].functionCall
       THEN Len(history)
  ELSE IF Boundaries = {} THEN 0
  ELSE LargestOf(Boundaries)

PercentageSplit ==
  /\ (SplitDone /\ SplitArgument.fraction > 0 /\ SplitArgument.fraction < 100) =>
        /\ SplitResult.type = "number"
        /\ SplitResult.splitIndex = ExpectedPercentageSplit(SplitArgument.fraction)
  /\ (SplitDone /\ SplitArgument.strategy = "percentage") =>
        LET t == IF SplitArgument.preserveThreshold = Undefined THEN 30
                 ELSE SplitArgument.preserveThreshold
            i == ExpectedPercentageSplit(100 - t)
        IN /\ SplitResult.type = "result"
           /\ SplitResult.splitIndex = i
           /\ SplitResult.historyToCompress = SubSeq(history, 1, i)
           /\ SplitResult.historyToKeep = SubSeq(history, i + 1, Len(history))

\* no boundary reaches the target and the history ends in a function call: the
\* split falls back to the last boundary, which is not the first message
FallbackToLastBoundary ==
  /\ SplitDone /\ SplitArgument = OptionsArgument("percentage", Undefined, Undefined)
  /\ BoundariesAtTarget(70) = {}
  /\ Len(history) > 0 /\ history[Len(history)].functionCall
  /\ SplitResult.splitIndex >= 1
  /\ SplitResult.splitIndex = LargestOf(Boundaries)

\* ---------------------------------------------- the executor as a function
\* tryCompressChat called directly on the histories of the split planner, with
\* the options the callers pass: none, a goal with since-last-prompt, percentage
ExecutorOptions ==
  {NoOptions,
   [userGoal |-> NoGoal, preserveStrategy |-> "percentage"]}
  \cup {[userGoal |-> g, preserveStrategy |-> "since-last-prompt"] : g \in Goals}

ExecutorInit ==
  /\ history \in SplitHistories
  /\ lastPromptTokenCount \in TokenLevels
  /\ modelLimit \in ModelLimits
  /\ hasFailedCompressionAttempt \in BOOLEAN
  /\ messagesSinceLastCompress = 0
  /\ lastCompressionTime = 0
  /\ isCompressing = FALSE
  /\ config = DefaultConfig
  /\ now = ClockStart
  /\ proc = [p \in Procs |-> IdleProc]
  /\ lastResult = NoResult

ExecutorNext == \E f \in BOOLEAN, o \in ExecutorOptions : CompressCommand(f, o)

ExecutorSpec == ExecutorInit /\ [][ExecutorNext]_vars

\* C22: fallback on no split: when compress() runs with preserveStrategy =
\* since-last-prompt and the since-last-prompt planner finds no split (no user
\* message after index 0, or fewer than 5 messages before the last one), the
\* attempt uses the split of the percentage strategy with preserve threshold
\* 0.3 and goes on to the summarization whenever that split compresses at
\* least one message; it returns NOOP only when that split compresses nothing.
LastUserIndex ==
  LET users == {i \in 0..(Len(history) - 1) : history[i + 1].role = "user"}
  IN IF users = {} THEN Undefined ELSE LargestOf(users)

PassesNoopChecks(p) ==
  /\ Len(history) > 0
  /\ proc[p].force \/ (/\ ~hasFailedCompressionAttempt
                        /\ lastPromptTokenCount * 100 >= 50 * modelLimit)

PercentageForm ==
  \/ (SplitArgument.fraction > 0 /\ SplitArgument.fraction < 100)
  \/ (SplitArgument.fraction = Undefined /\ SplitArgument.strategy = "percentage")

ToolPairsKeptTogether ==
  (SplitDone /\ PercentageForm) =>
    LET s == SplitResult.splitIndex
        n == Len(history)
    IN /\ s \in 0..n
       /\ \/ s = 0
          \/ s = n /\ history[n].role = "model" /\ ~history[n].functionCall
          \/ s < n /\ history[s + 1].role = "user" /\ ~history[s + 1].functionResponse
       /\ (0 < s /\ s < n) => ~history[s + 1].functionResponse
       /\ (0 < s /\ s = n) => ~history[n].functionCall
       /\ SplitResult.type = "result" =>
            /\ (s > 0 /\ SplitResult.historyToKeep # <<>>) =>
                  ~SplitResult.historyToKeep[1].functionResponse
            /\ (SplitResult.historyToKeep = <<>> /\ n > 0) =>
                  ~SplitResult.historyToCompress[n].functionCall

\* a function response sits at the target weight and is passed over: the split
\* is the later user message
FunctionResponseSkipped ==
  /\ SplitDone /\ SplitArgument = FractionArgument(70)
  /\ \E j \in 1..(Len(history) - 1) :
        /\ history[j + 1].functionResponse
        /\ history[j].functionCall
        /\ WeightBefore(j) * 100 >= TotalChars(history) * 70
        /\ SplitResult.splitIndex > j
        /\ SplitResult.splitIndex < Len(history)

\* -------------------------------------------------- goal extraction by itself
\* the segments model responses are put together from: a goal of 30 and one of
\* 31 characters, a goal in whitespace, an empty goal, text outside the tags,
\* a tag that is never closed, a closing tag without an opening one
MaxSegments == 4
ResponseSegments ==
  {<<OpenTag, Text(30), CloseTag>>,
   <<OpenTag, Text(30), Text(1), CloseTag>>,
   <<OpenTag, Space, Text(1), Space, CloseTag>>,
   <<OpenTag, Space, CloseTag>>,
   <<Space>>,
   <<OpenTag, Text(1)>>,
   <<CloseTag>>}

RECURSIVE Flatten(_)
Flatten(segments) ==
  IF segments = <<>> THEN <<>> ELSE Head(segments) \o Flatten(Tail(segments))

Responses == {Flatten(q) : q \in UNION {[1..n -> ResponseSegments] : n \in 0..MaxSegments}}

\* what generateContent may reject with
Rejections == {TimeoutError, Thrown(TRUE, "API error"), Thrown(FALSE, "Timeout")}

\* timeoutMs of the call
ExtractionTimeouts == {0, TickMs}

\* extractGoals up to `await Promise.race`: the request is sent, the timer set
ExtractGoals(timeoutMs) ==
  /\ proc["turn"].pc = "idle"
  /\ proc' = [proc EXCEPT !["turn"] =
        [IdleProc EXCEPT !.pc = "racing", !.call = "pending", !.timer = "armed",
                         !.deadline = now + timeoutMs]]
  /\ UNCHANGED <<history, lastPromptTokenCount, modelLimit, hasFailedCompressionAttempt,
                 messagesSinceLastCompress, lastCompressionTime, isCompressing, config, now,
                 lastResult>>

\* generateContent resolves; if the race is still open, extractGoals parses the
\* text and returns
GenerateResolves(text) ==
  /\ proc["turn"].call = "pending"
  /\ IF proc["turn"].pc = "racing"
     THEN proc' = [proc EXCEPT !["turn"].call = "resolved", !["turn"].pc = "extracted",
                               !["turn"].response = text,
                               !["turn"].extractionResult = ExtractedFrom(text)]
     ELSE proc' = [proc EXCEPT !["turn"].call = "resolved", !["turn"].response = text]
  /\ UNCHANGED <<history, lastPromptTokenCount, modelLimit, hasFailedCompressionAttempt,
                 messagesSinceLastCompress, lastCompressionTime, isCompressing, config, now,
                 lastResult>>

\* generateContent rejects; if the race is still open, the catch block returns
GenerateRejects(error) ==
  /\ proc["turn"].call = "pending"
  /\ IF proc["turn"].pc = "racing"
     THEN proc' = [proc EXCEPT !["turn"].call = "rejected", !["turn"].pc = "extracted",
                               !["turn"].rejection = error,
                               !["turn"].extractionResult = ExtractionFailure(error)]
     ELSE proc' = [proc EXCEPT !["turn"].call = "rejected", !["turn"].rejection = error]
  /\ UNCHANGED <<history, lastPromptTokenCount, modelLimit, hasFailedCompressionAttempt,
                 messagesSinceLastCompress, lastCompressionTime, isCompressing, config, now,
                 lastResult>>

\* mutant: the timer callback replaces the result whenever it runs
TimeoutFires_OverwritesResult ==
  /\ proc["turn"].timer = "armed"
  /\ now >= proc["turn"].deadline
  /\ proc' = [proc EXCEPT !["turn"].timer = "fired", !["turn"].pc = "extracted",
                          !["turn"].extractionResult = ExtractionFailure(TimeoutError)]
  /\ UNCHANGED <<history, lastPromptTokenCount, modelLimit, hasFailedCompressionAttempt,
                 messagesSinceLastCompress, lastCompressionTime, isCompressing, config, now,
                 lastResult>>

\* the setTimeout callback runs and rejects timeoutPromise with Error('Timeout');
\* a race that is already settled ignores it
TimeoutFires ==
  /\ proc["turn"].timer = "armed"
  /\ now >= proc["turn"].deadline
  /\ IF proc["turn"].pc = "racing"
     THEN proc' = [proc EXCEPT !["turn"].timer = "fired", !["turn"].pc = "extracted",
                               !["turn"].extractionResult = ExtractionFailure(TimeoutError)]
     ELSE proc' = [proc EXCEPT !["turn"].timer = "fired"]
  /\ UNCHANGED <<history, lastPromptTokenCount, modelLimit, hasFailedCompressionAttempt,
                 messagesSinceLastCompress, lastCompressionTime, isCompressing, config, now,
                 lastResult>>

\* time passes; a timer that is due runs before the clock moves on
ExtractionTick ==
  /\ now + TickMs <= MaxClock
  /\ proc["turn"].timer = "armed" => now + TickMs <= proc["turn"].deadline
  /\ now' = now + TickMs
  /\ UNCHANGED <<history, lastPromptTokenCount, modelLimit, hasFailedCompressionAttempt,
                 messagesSinceLastCompress, lastCompressionTime, isCompressing, config, proc,
                 lastResult>>

ExtractionNext ==
  \/ \E t \in ExtractionTimeouts : ExtractGoals(t)
  \/ \E text \in Responses : GenerateResolves(text)
  \/ \E e \in Rejections : GenerateRejects(e)
  \/ TimeoutFires
  \/ ExtractionTick

ExtractionSpec == Init /\ [][ExtractionNext]_vars

\* the race of extractGoals is open / was settled by this step
Racing == proc["turn"].pc = "racing"
Settles == Racing /\ proc'["turn"].pc = "extracted"
TimerStep == proc["turn"].timer = "armed" /\ proc'["turn"].timer = "fired"
RejectStep == proc["turn"].call = "pending" /\ proc'["turn"].call = "rejected"
ResolveStep == proc["turn"].call = "pending" /\ proc'["turn"].call = "resolved"

\* what holds of extractGoals whatever the call fails with: a result is always
\* returned, the timer settles an open race with the timeout result, a
\* response that comes first gives a result without error, and a settled
\* result is never changed by the loser of the race
ExtractionAlwaysReturns ==
  /\ (Racing /\ (TimerStep \/ RejectStep \/ ResolveStep)) => Settles
  /\ (Racing /\ TimerStep) =>
        proc'["turn"].extractionResult = GoalExtractionResult(<<>>, "none", "timeout")
  /\ (Racing /\ ResolveStep) => proc'["turn"].extractionResult.error = Null
  /\ proc["turn"].pc = "extracted" =>
        /\ proc'["turn"].pc = "extracted"
        /\ proc'["turn"].extractionResult = proc["turn"].extractionResult

\* C23 as stated: goal extraction never raises: extractGoals always returns a
\* result; the result is {goals: [], confidence: none, error: timeout} when
\* the call does not resolve within timeoutMs, {goals: [], confidence: none,
\* error: extraction_failed} when the call fails for any other reason, and a
\* timer that expires after the call resolved has no effect on the result.
ExtractionFailuresAreTagged ==
  [][/\ ExtractionAlwaysReturns
     /\ (Racing /\ RejectStep) =>
           proc'["turn"].extractionResult = GoalExtractionResult(<<>>, "none", "extraction_failed")
    ]_vars

\* C23 amended: extractGoals always returns a result; it is {goals: [],
\* confidence: none, error: timeout} when the call does not resolve within
\* timeoutMs and also when the call rejects with an Error whose message is
\* 'Timeout', {goals: [], confidence: none, error: extraction_failed} when the
\* call rejects with anything else, and a timer that expires after the call
\* resolved has no effect on the result.
ExtractionFailuresAreTaggedByMessage ==
  [][/\ ExtractionAlwaysReturns
     /\ (Racing /\ RejectStep) =>
           LET e == proc'["turn"].rejection
           IN proc'["turn"].extractionResult =
                GoalExtractionResult(<<>>, "none",
                  IF e.isError /\ e.message = "Timeout" THEN "timeout" ELSE "extraction_failed")
     /\ (Settles /\ proc'["turn"].extractionResult.error = "timeout") =>
           \/ TimerStep
           \/ RejectStep /\ proc'["turn"].rejection = TimeoutError
    ]_vars

\* the response came first and gave a goal; the timer expired later and the
\* result is still the one of the response
LateTimerIgnored ==
  /\ proc["turn"].pc = "extracted"
  /\ proc["turn"].call = "resolved" /\ proc["turn"].timer = "fired"
  /\ proc["turn"].extractionResult.error = Null
  /\ Len(proc["turn"].extractionResult.goals) = 1

\* ------------------------------------------------------ the prompt by itself
\* GoalSelectionPrompt as the automatic flow and the tests render it (caller
\* "turn", onSelect resolves the selection), and as CompressionDialog renders
\* it for /compress (caller "cmd", onSelect is handleGoalSelect)
MaxPromptSeconds == 2
PromptGoals == {<<>>, <<"g1">>, <<"g1", "g2">>, <<"g2", "g1">>}
PromptTimeouts == 0..MaxPromptSeconds \cup {Undefined}
CustomTexts == {"", "  ", " custom goal "}

\* customGoal.trim() on the texts above
TrimText(text) ==
  CASE text = "  " -> ""
    [] text = " custom goal " -> "custom goal"
    [] OTHER -> text

\* mutant: the opt-out items are offered whatever isSafetyValve is
Items_AlwaysOptOut(goals, isSafetyValve) ==
  goals \o <<"auto", "other">> \o <<"disable", "less_frequent">>

\* the values of the menu items, in order
Items(goals, isSafetyValve) ==
  goals \o <<"auto", "other">>
        \o (IF isSafetyValve = "true" THEN <<>> ELSE <<"disable", "less_frequent">>)

\* remainingTime; null without timeoutSeconds
RemainingTime(prompt) ==
  IF prompt.timeoutSeconds # Undefined
  THEN (IF prompt.timeoutSeconds - prompt.elapsedTime > 0
        THEN prompt.timeoutSeconds - prompt.elapsedTime ELSE 0)
  ELSE Undefined

\* the first render; the countdown effect is scheduled
Mounted(goals, timeoutSeconds, isSafetyValve, dialogState) ==
  [NoPrompt EXCEPT !.mounted = TRUE, !.goals = goals, !.timeoutSeconds = timeoutSeconds,
                   !.isSafetyValve = isSafetyValve, !.items = Items(goals, isSafetyValve),
                   !.effectPending = TRUE, !.dialogState = dialogState]

\* CompressionDialog.performCompression(selectedGoal) up to the call of
\* tryCompressChat: the dialog is closed, the options are built
PerformCompression(rec, selectedGoal) ==
  [rec EXCEPT !.pc = "selected",
              !.options = IF selectedGoal # Null /\ selectedGoal # ""
                          THEN [userGoal |-> selectedGoal, preserveStrategy |-> "since-last-prompt"]
                          ELSE NoOptions,
              !.prompt.mounted = FALSE,
              !.prompt.dialogState = "compressing",
              !.prompt.performed = rec.prompt.performed + 1]

\* CompressionDialog.handleGoalSelect
HandleGoalSelect(rec, goal) ==
  IF goal = "other" THEN [rec EXCEPT !.prompt.dialogState = "custom_input"]
  ELSE IF goal \in {"disable", "less_frequent", "auto", Null} THEN PerformCompression(rec, Null)
  ELSE PerformCompression(rec, goal)

\* the onSelect prop is called with a value
OnSelect(p, rec, value) ==
  LET called == [rec EXCEPT !.prompt.onSelectCalls = Append(rec.prompt.onSelectCalls, value)]
  IN IF p = "cmd" THEN HandleGoalSelect(called, value)
     ELSE [called EXCEPT !.pc = "selected", !.selection = value,
                         !.prompt.performed = rec.prompt.performed + 1]

\* the component is rendered with its props
RenderGoalSelectionPrompt(goals, timeoutSeconds, isSafetyValve) ==
  /\ proc["turn"].pc = "idle"
  /\ proc' = [proc EXCEPT !["turn"] =
        [IdleProc EXCEPT !.pc = "prompting", !.extractedGoals = goals,
                         !.prompt = Mounted(goals, timeoutSeconds, isSafetyValve, "none")]]
  /\ UNCHANGED <<history, lastPromptTokenCount, modelLimit, hasFailedCompressionAttempt,
                 messagesSinceLastCompress, lastCompressionTime, isCompressing, config, now,
                 lastResult>>

\* /compress found goals and returns the dialog: GoalSelectionPrompt without
\* timeoutSeconds, isSafetyValve = false
ShowCompressionDialog(goals) ==
  /\ proc["cmd"].pc = "idle"
  /\ config.interactive /\ config.deliberateEnabled
  /\ Len(goals) > 0
  /\ proc' = [proc EXCEPT !["cmd"] =
        [IdleProc EXCEPT !.pc = "prompting", !.extractedGoals = goals,
                         !.prompt = Mounted(goals, Undefined, "false", "goal_selection")]]
  /\ UNCHANGED <<history, lastPromptTokenCount, modelLimit, hasFailedCompressionAttempt,
                 messagesSinceLastCompress, lastCompressionTime, isCompressing, config, now,
                 lastResult>>

\* mutant: handleSelect passes every selection on
HandleSelect_Unguarded(p, value) ==
  /\ proc[p].prompt.mounted
  /\ proc[p].prompt.dialogState \in {"none", "goal_selection"}
  /\ \E i \in 1..Len(proc[p].prompt.items) : proc[p].prompt.items[i] = value
  /\ proc' = [proc EXCEPT ![p] = OnSelect(p, [proc[p] EXCEPT !.prompt.hasSelectedRef = TRUE], value)]
  /\ UNCHANGED <<history, lastPromptTokenCount, modelLimit, hasFailedCompressionAttempt,
                 messagesSinceLastCompress, lastCompressionTime, isCompressing, config, now,
                 lastResult>>

\* the user picks an item of RadioButtonSelect: handleSelect(value)
HandleSelect(p, value) ==
  /\ proc[p].prompt.mounted
  /\ proc[p].prompt.dialogState \in {"none", "goal_selection"}
  /\ \E i \in 1..Len(proc[p].prompt.items) : proc[p].prompt.items[i] = value
  /\ IF ~proc[p].prompt.hasSelectedRef
     THEN proc' = [proc EXCEPT ![p] =
                     OnSelect(p, [proc[p] EXCEPT !.prompt.hasSelectedRef = TRUE], value)]
     ELSE UNCHANGED proc
  /\ UNCHANGED <<history, lastPromptTokenCount, modelLimit, hasFailedCompressionAttempt,
                 messagesSinceLastCompress, lastCompressionTime, isCompressing, config, now,
                 lastResult>>

\* CustomGoalInput: Enter submits the text, Esc cancels
CustomGoalSubmit(customGoal) ==
  /\ proc["cmd"].prompt.dialogState = "custom_input"
  /\ proc' = [proc EXCEPT !["cmd"] =
        PerformCompression(proc["cmd"], IF TrimText(customGoal) # "" THEN TrimText(customGoal) ELSE Null)]
  /\ UNCHANGED <<history, lastPromptTokenCount, modelLimit, hasFailedCompressionAttempt,
                 messagesSinceLastCompress, lastCompressionTime, isCompressing, config, now,
                 lastResult>>

CustomGoalCancel ==
  /\ proc["cmd"].prompt.dialogState = "custom_input"
  /\ proc' = [proc EXCEPT !["cmd"] = PerformCompression(proc["cmd"], Null)]
  /\ UNCHANGED <<history, lastPromptTokenCount, modelLimit, hasFailedCompressionAttempt,
                 messagesSinceLastCompress, lastCompressionTime, isCompressing, config, now,
                 lastResult>>

\* useTimer: a second passes while the timer is active; remainingTime changes
\* and the countdown effect is scheduled again
TimerTick(p) ==
  /\ proc[p].prompt.mounted
  /\ proc[p].prompt.timeoutSeconds # Undefined
  /\ proc[p].prompt.elapsedTime < proc[p].prompt.timeoutSeconds
  /\ proc' = [proc EXCEPT ![p].prompt.elapsedTime = proc[p].prompt.elapsedTime + 1,
                          ![p].prompt.effectPending = TRUE]
  /\ UNCHANGED <<history, lastPromptTokenCount, modelLimit, hasFailedCompressionAttempt,
                 messagesSinceLastCompress, lastCompressionTime, isCompressing, config, now,
                 lastResult>>

\* the effect on [remainingTime, onSelect] runs
CountdownEffect(p) ==
  /\ proc[p].prompt.mounted
  /\ proc[p].prompt.effectPending
  /\ LET rec == [proc[p] EXCEPT !.prompt.effectPending = FALSE]
     IN IF RemainingTime(proc[p].prompt) = 0 /\ ~proc[p].prompt.hasSelectedRef
        THEN proc' = [proc EXCEPT ![p] =
                        OnSelect(p, [rec EXCEPT !.prompt.hasSelectedRef = TRUE], "auto")]
        ELSE proc' = [proc EXCEPT ![p] = rec]
  /\ UNCHANGED <<history, lastPromptTokenCount, modelLimit, hasFailedCompressionAttempt,
                 messagesSinceLastCompress, lastCompressionTime, isCompressing, config, now,
                 lastResult>>

PromptNext ==
  \/ \E g \in PromptGoals, t \in PromptTimeouts, v \in {"true", "false", "undefined"} :
        RenderGoalSelectionPrompt(g, t, v)
  \/ \E g \in PromptGoals : ShowCompressionDialog(g)
  \/ \E p \in Procs, v \in {"g1", "g2", "auto", "other", "disable", "less_frequent"} :
        HandleSelect(p, v)
  \/ \E text \in CustomTexts : CustomGoalSubmit(text)
  \/ CustomGoalCancel
  \/ \E p \in Procs : TimerTick(p)
  \/ \E p \in Procs : CountdownEffect(p)

\* timers and effects are run by the event loop; the user answers or does not
PromptSpec ==
  /\ Init /\ [][PromptNext]_vars
  /\ \A p \in Procs : WF_vars(TimerTick(p)) /\ WF_vars(CountdownEffect(p))

\* ------------------------------------------------------------ the attempts
\* positions inside tryCompressChat, and inside compress() after its NOOP checks
AttemptPcs == {"summarizing", "counting", "returning", "restarting"}
ExecutorPcs == {"summarizing", "counting"}
Failed == "COMPRESSION_FAILED_INFLATED_TOKEN_COUNT"

\* the step is taken by caller p
StepOf(p) == proc'[p] # proc[p]
\* p's step enters tryCompressChat / leaves it
StartsAttempt(p) == proc[p].pc \notin AttemptPcs /\ proc'[p].pc \in AttemptPcs
EndsAttempt(p) == proc[p].pc \in AttemptPcs /\ proc'[p].pc \notin AttemptPcs

\* C1: mutual exclusion of compaction: an invocation of tryCompressChat that
\* overlaps an earlier one returns NOOP without calling the summarization model,
\* so at most one attempt is inside CompactionExecutor at any time.
MutualExclusionOfCompaction ==
  \A p, q \in Procs : (proc[p].pc \in ExecutorPcs /\ proc[q].pc \in ExecutorPcs) => p = q

\* C2: monotonic token reduction: a COMPRESSED result has newTokenCount
\* strictly below originalTokenCount.
MonotonicTokenReduction ==
  \A p \in Procs :
    (proc[p].pc \in {"returning", "restarting"} /\ proc[p].compressionStatus = "COMPRESSED") =>
       proc[p].newTokenCount < proc[p].originalTokenCount

\* C5: a validation failure keeps the original state: with newTokenCount above
\* originalTokenCount compress returns COMPRESSION_FAILED_INFLATED_TOKEN_COUNT and
\* a null newHistory, forced or not, and no step of such an attempt changes the
\* history, messagesSinceLastCompress or lastCompressionTime.
ValidationFailureKeepsState ==
  [][\A p \in Procs :
       /\ (proc[p].pc = "counting" /\ proc'[p].pc = "returning"
             /\ proc'[p].newTokenCount > proc'[p].originalTokenCount) =>
            /\ proc'[p].compressionStatus = Failed
            /\ proc'[p].newHistory = NullHistory
       /\ (StepOf(p) /\ proc[p].pc = "returning" /\ proc[p].compressionStatus = Failed) =>
            /\ lastResult' = Returned(p, Failed)
            /\ UNCHANGED <<history, messagesSinceLastCompress, lastCompressionTime>>
       /\ (StepOf(p) /\ (StartsAttempt(p) \/ proc[p].pc \in {"summarizing", "counting"})) =>
            UNCHANGED <<history, messagesSinceLastCompress, lastCompressionTime>>
    ]_vars

\* a forced attempt is about to return the failure while a non-forced one has
\* returned it before
ValidationFailureReturned ==
  /\ proc["turn"].pc = "returning" /\ proc["turn"].force
  /\ proc["turn"].compressionStatus = Failed
  /\ proc["turn"].newTokenCount > proc["turn"].originalTokenCount
  /\ proc["turn"].newHistory = NullHistory
  /\ lastResult = Returned("cmd", Failed)
  /\ hasFailedCompressionAttempt

\* C6: the NOOP short-circuits of compress, checked in order: empty history
\* (also when forced), sticky failure without force, not forced and below
\* threshold x modelLimit, empty historyToCompress. Exactly these return NOOP
\* with a null newHistory, and none of them calls the summarization model.
NoopShortCircuits ==
  [][\A p \in Procs :
       LET force == proc'[p].force
           emptyHistory == Len(history) = 0
           sticky == hasFailedCompressionAttempt /\ ~force
           belowThreshold ==
             ~force /\ lastPromptTokenCount * 100 < CompressionThreshold(config') * modelLimit
           emptySplit == Len(CompressSplit(history, proc'[p].options)[1]) = 0
           noop == /\ proc'[p].pc = "returning"
                   /\ proc'[p].compressionStatus = "NOOP"
                   /\ proc'[p].newHistory = NullHistory
       IN /\ StartsAttempt(p) =>
               /\ noop <=> (emptyHistory \/ sticky \/ belowThreshold \/ emptySplit)
               /\ ~noop <=> proc'[p].pc = "summarizing"
               /\ (emptyHistory \/ sticky) =>
                     proc'[p].originalTokenCount = 0 /\ proc'[p].newTokenCount = 0
               /\ (noop /\ ~emptyHistory /\ ~sticky) =>
                     /\ proc'[p].originalTokenCount = lastPromptTokenCount
                     /\ proc'[p].newTokenCount = lastPromptTokenCount
          /\ (StepOf(p) /\ ~StartsAttempt(p)) =>
               ~(proc'[p].pc = "returning" /\ proc'[p].compressionStatus = "NOOP")
    ]_vars

\* a forced attempt on a non-empty history returns NOOP while the sticky
\* failure flag is set
ForcedNoopReturned ==
  /\ proc["cmd"].pc = "returning" /\ proc["cmd"].compressionStatus = "NOOP"
  /\ proc["cmd"].force
  /\ proc["cmd"].originalTokenCount > 0
  /\ hasFailedCompressionAttempt

\* C7: the in-progress flag covers the whole attempt: while goal extraction or
\* the prompt is pending, a trigger evaluation reports compression_in_progress.
InProgressCoversAttempt ==
  proc["turn"].pc \in {"extracting", "prompting"} =>
     /\ isCompressing
     /\ CurrentDecision = Decision(FALSE, "compression_in_progress", FALSE)

\* C8: the in-progress flag is released on every exit path of tryCompressChat:
\* NOOP, COMPRESSED, COMPRESSION_FAILED_INFLATED_TOKEN_COUNT, or a throw of the
\* summarization, the token count or the chat restart.
FlagReleasedOnEveryExit ==
  [][\A p \in Procs :
       EndsAttempt(p) =>
         /\ isCompressing' = FALSE
         /\ CurrentDecision'.reason # "compression_in_progress"
         /\ lastResult'.caller = p
         /\ lastResult'.status \in {"NOOP", "COMPRESSED", Failed, "error"}
    ]_vars

\* an attempt has ended by an exception and nothing is in progress
AttemptEndedByThrow ==
  /\ lastResult.status = "error"
  /\ \A p \in Procs : proc[p].pc \notin AttemptPcs
  /\ ~isCompressing

\* C9: no compaction re-entrancy: while an attempt awaits the summarization
\* model, the trigger reports compression_in_progress, for every interleaving
\* of the post-response trigger and the /compress command.
NoCompactionReentrancy ==
  (\E p \in Procs : proc[p].pc = "summarizing") =>
     CurrentDecision = Decision(FALSE, "compression_in_progress", FALSE)

\* C10: guard counters change only on success: lastCompressionTime changes and
\* messagesSinceLastCompress decreases only in the step in which an attempt
\* returns COMPRESSED with its new history, which sets them to now and 0.
SuccessStep(p) ==
  /\ proc[p].pc = "restarting" /\ proc'[p].pc = "idle"
  /\ lastResult' = Returned(p, "COMPRESSED")

GuardCountersChangeOnlyOnSuccess ==
  [][/\ (lastCompressionTime' # lastCompressionTime
           \/ messagesSinceLastCompress' < messagesSinceLastCompress) =>
          \E p \in Procs : SuccessStep(p) /\ history' = proc[p].newHistory
     /\ \A p \in Procs :
          SuccessStep(p) => messagesSinceLastCompress' = 0 /\ lastCompressionTime' = now
    ]_vars

\* an automatically triggered attempt has returned COMPRESSED and reset the counters
CountersResetAfterSuccess ==
  /\ lastResult = Returned("turn", "COMPRESSED")
  /\ messagesSinceLastCompress = 0
  /\ lastCompressionTime = now
  /\ proc["turn"].pc = "idle"

\* ------------------------------------------------------ the sticky failure flag
\* p's step handles the result compress() returned to tryCompressChat
HandlesResult(p, status) ==
  StepOf(p) /\ proc[p].pc = "returning" /\ proc[p].compressionStatus = status

\* C11: a validation failure is sticky: when an attempt that was started by the
\* post-response trigger (or any non-forced attempt) returns
\* COMPRESSION_FAILED_INFLATED_TOKEN_COUNT the sticky failure flag is set, and
\* while the flag is set an automatically triggered attempt does not call the
\* summarization model.
ValidationFailureIsSticky ==
  [][/\ \A p \in Procs :
          (HandlesResult(p, Failed) /\ (p = "turn" \/ ~proc[p].force)) =>
             hasFailedCompressionAttempt'
     /\ (StartsAttempt("turn") /\ hasFailedCompressionAttempt) =>
          proc'["turn"].pc # "summarizing"
    ]_vars

\* C12 as stated: the sticky failure flag goes back to false only in a step that
\* handles a COMPRESSED result or the failure of a forced attempt.
StickyFlagClearedOnlyByAttempt ==
  [][(hasFailedCompressionAttempt /\ ~hasFailedCompressionAttempt') =>
        \E p \in Procs :
           \/ HandlesResult(p, "COMPRESSED")
           \/ HandlesResult(p, Failed) /\ proc[p].force
    ]_vars

\* C12 amended: the sticky failure flag goes back to false only in a step that
\* handles a COMPRESSED result or the failure of a forced attempt, or in a step
\* in which resetChat or resumeChat starts a new chat; a new user message, a
\* trigger evaluation, a NOOP result, goal extraction and a prompt selection
\* leave it set.
StickyFlagClearedOnlyByAttemptOrNewChat ==
  [][(hasFailedCompressionAttempt /\ ~hasFailedCompressionAttempt') =>
        \/ \E p \in Procs :
              \/ HandlesResult(p, "COMPRESSED")
              \/ HandlesResult(p, Failed) /\ proc[p].force
        \/ proc["cmd"].pc = "idle" /\ proc'["cmd"].pc = "starting"
    ]_vars

\* the flag is set and a non-forced attempt on a history over the threshold has
\* returned NOOP without clearing it
StickyFlagSurvivesNoop ==
  /\ hasFailedCompressionAttempt
  /\ lastResult = Returned("cmd", "NOOP")
  /\ Len(history) > 0 /\ lastPromptTokenCount = 520000

\* ------------------------------------------------------ selections and options
\* the automatic attempt of the turn is inside tryCompressChat
AutomaticAttempt == proc["turn"].pc \in AttemptPcs
\* compress() has built a result after the summarization
SummarizedResult(p) == proc[p].compressionStatus \in {"COMPRESSED", Failed}

\* C14: a concrete goal selection is carried through unchanged: when the
\* selection is an extracted goal g, the attempt runs with userGoal = g and
\* preserveStrategy = since-last-prompt, and the result compress() builds has
\* goalWasSelected = true.
GoalSelectionCarriedThrough ==
  (AutomaticAttempt /\ proc["turn"].selection \in Goals) =>
     /\ proc["turn"].options =
          [userGoal |-> proc["turn"].selection, preserveStrategy |-> "since-last-prompt"]
     /\ SummarizedResult("turn") => proc["turn"].goalWasSelected = "true"

\* the attempt that follows the selection of a goal has produced COMPRESSED
GoalAttemptCompressed ==
  /\ proc["turn"].pc = "returning" /\ proc["turn"].selection \in Goals
  /\ proc["turn"].compressionStatus = "COMPRESSED"
  /\ proc["turn"].goalWasSelected = "true"

\* C15: a selection of 'auto' or null (also a prompt timeout), and the
\* non-interactive branch, give CompressionOptions with preserveStrategy =
\* percentage and no userGoal, and a result with goalWasSelected = false.
AutoSelectionIsGoalNeutral ==
  (AutomaticAttempt /\ (\/ proc["turn"].selection \in {"auto", Null}
                         \/ (proc["turn"].selection = NoSelection /\ ~config.interactive))) =>
     /\ proc["turn"].options = [userGoal |-> NoGoal, preserveStrategy |-> "percentage"]
     /\ SummarizedResult("turn") => proc["turn"].goalWasSelected = "false"

\* C16: 'disable' is persistent: the selection sets compressionInteractive to
\* false, and while it is false no automatic attempt extracts goals or shows
\* the prompt.
PromptStep == proc["turn"].pc = "prompting" /\ StepOf("turn")

OptOutKeepsAttempt ==
  [][PromptStep =>
       LET selection == proc'["turn"].selection
       IN /\ proc'["turn"].pc \in AttemptPcs /\ isCompressing'
          /\ proc'["turn"].force
          /\ selection \in {"disable", "less_frequent"} =>
               proc'["turn"].options = HandleCompressionSelection("auto")
          /\ selection = "disable" => config' = [config EXCEPT !.interactive = FALSE]
          /\ selection = "less_frequent" =>
               /\ config'.triggerTokens > config.triggerTokens
               /\ config'.minMessages > config.minMessages
               /\ config'.interactive = config.interactive
          /\ selection \notin {"disable", "less_frequent"} => config' = config
    ]_vars

\* after 'less_frequent' the attempt is in flight although the relaxed trigger
\* would no longer fire for the current token count
AttemptAfterLessFrequent ==
  /\ proc["turn"].pc = "summarizing" /\ proc["turn"].selection = "less_frequent"
  /\ lastPromptTokenCount < config.triggerTokens

\* C24: extraction timeout falls back cleanly: in an automatically triggered
\* interactive attempt whose goal extraction times out (or fails, or finds no
\* goal, or runs under the safety valve), the prompt callback is never invoked
\* and compress() is called with preserveStrategy = percentage and no userGoal.
ExtractionFallbackIsClean ==
  [][(proc["turn"].pc = "extracting" /\ StepOf("turn")) =>
       /\ proc'["turn"].pc = "prompting" =>
            /\ ~proc["turn"].decision.isSafetyValve
            /\ proc'["turn"].extractionResult.error = Null
            /\ Len(proc'["turn"].extractionResult.goals) > 0
       /\ proc'["turn"].pc # "prompting" =>
            /\ proc'["turn"].pc \in AttemptPcs
            /\ proc'["turn"].selection = NoSelection
            /\ proc'["turn"].options = [userGoal |-> NoGoal, preserveStrategy |-> "percentage"]
    ]_vars

\* ------------------------------------------------------ the extracted goals
Extracted == proc["turn"].pc = "extracted"
ExtractedResult == proc["turn"].extractionResult
\* extractGoals returned what it parsed from the response
ParsedFromResponse == Extracted /\ ExtractedResult.error = Null

\* the goals occur in the text one after the other, from position `from` on
RECURSIVE OccurInOrder(_, _, _)
OccurInOrder(goals, text, from) ==
  IF goals = <<>> THEN TRUE
  ELSE LET g == Head(goals)
           at == {i \in from..(Len(text) - Len(g) + 1) : SubSeq(text, i, i + Len(g) - 1) = g}
       IN at # {} /\ OccurInOrder(Tail(goals), text, SmallestOf(at) + Len(g))

\* C25: a GoalExtractionResult never holds more than 3 goals: for every model
\* response, whatever the number of <goal> tags in it, extractGoals returns
\* between 0 and 3 goals, each non-empty after trimming, in response order.
AtMostThreeGoals ==
  Extracted =>
    LET goals == ExtractedResult.goals
    IN /\ Len(goals) <= 3
       /\ \A k \in 1..Len(goals) :
            /\ goals[k] # <<>>
            /\ goals[k][1].kind # "space" /\ goals[k][Len(goals[k])].kind # "space"
       /\ ParsedFromResponse => OccurInOrder(goals, proc["turn"].response, 1)

\* C26: confidence classification: for a successful extraction the confidence
\* is none iff there are 0 goals, high iff there is exactly 1 goal and it is
\* longer than 30 characters, medium iff there are 2 or more goals, low iff
\* there is exactly 1 goal of at most 30 characters; an error result always
\* has confidence none.
ConfidenceClassification ==
  Extracted =>
    LET goals == ExtractedResult.goals
        n == Len(goals)
        c == ExtractedResult.confidence
    IN /\ c \in {"none", "high", "medium", "low"}
       /\ ExtractedResult.error = Null =>
            /\ c = "none" <=> n = 0
            /\ c = "high" <=> (n = 1 /\ TotalChars(goals[1]) > 30)
            /\ c = "medium" <=> n >= 2
            /\ c = "low" <=> (n = 1 /\ TotalChars(goals[1]) <= 30)
       /\ ExtractedResult.error # Null => c = "none"

\* a single goal of 31 characters is rated high
SingleDetailedGoal ==
  /\ ParsedFromResponse
  /\ Len(ExtractedResult.goals) = 1
  /\ TotalChars(ExtractedResult.goals[1]) = 31
  /\ ExtractedResult.confidence = "high"

\* ------------------------------------------------------------ the goal prompt
\* C27: the safety valve leaves no opt-out: with isSafetyValve true the choices
\* are exactly the goals followed by 'auto' and 'other', never 'disable' or
\* 'less_frequent'; with isSafetyValve false or absent they are the goals
\* followed by 'auto', 'other', 'disable', 'less_frequent' in that order.
SafetyValveLeavesNoOptOut ==
  \A p \in Procs :
    proc[p].pc # "idle" =>
      LET prompt == proc[p].prompt
          optOuts == {"disable", "less_frequent"}
      IN /\ prompt.isSafetyValve = "true" =>
              /\ prompt.items = prompt.goals \o <<"auto", "other">>
              /\ \A i \in 1..Len(prompt.items) :
                    i > Len(prompt.goals) => prompt.items[i] \notin optOuts
              /\ \A i \in 1..Len(prompt.onSelectCalls) : prompt.onSelectCalls[i] \notin optOuts
         /\ prompt.isSafetyValve # "true" =>
              prompt.items = prompt.goals \o <<"auto", "other", "disable", "less_frequent">>

\* two goals under the safety valve: four choices
SafetyValveChoices ==
  /\ proc["turn"].prompt.mounted
  /\ proc["turn"].prompt.isSafetyValve = "true"
  /\ proc["turn"].prompt.goals = <<"g1", "g2">>
  /\ proc["turn"].prompt.items = <<"g1", "g2", "auto", "other">>

\* C28: first-to-resolve prompt race: for one prompt instance, over every
\* interleaving of user selections and the countdown reaching zero, onSelect
\* is called at most once; the first event decides the value (the user's
\* choice, or 'auto' on timeout), later events are discarded, and the
\* selection is handled at most once.
FirstToResolve ==
  [][\A p \in Procs :
       LET before == proc[p].prompt
           after == proc'[p].prompt
       IN (before.mounted /\ proc'[p].pc # "idle") =>
            /\ Len(after.onSelectCalls) <= 1
            /\ after.performed <= 1
            /\ before.onSelectCalls # <<>> => after.onSelectCalls = before.onSelectCalls
            /\ (before.onSelectCalls = <<>> /\ after.onSelectCalls # <<>>) =>
                  /\ \E i \in 1..Len(before.items) : before.items[i] = after.onSelectCalls[1]
                  /\ (before.effectPending /\ ~after.effectPending) =>
                        RemainingTime(before) = 0 /\ after.onSelectCalls[1] = "auto"
            /\ (p = "turn" /\ proc[p].pc = "selected") =>
                  proc'[p].pc = "selected" /\ proc'[p].selection = proc[p].selection
    ]_vars

\* the user chose a goal, then the countdown reached zero and its effect ran:
\* the selection is still the user's
TimeoutAfterSelection ==
  /\ proc["turn"].prompt.onSelectCalls = <<"g1">>
  /\ proc["turn"].selection = "g1"
  /\ proc["turn"].prompt.timeoutSeconds = 2
  /\ RemainingTime(proc["turn"].prompt) = 0
  /\ ~proc["turn"].prompt.effectPending

\* C29: the prompt wait is bounded: in every attempt that presents the goal
\* prompt (the automatic trigger, whose prompt has a timeout, or the /compress
\* dialog), a prompt that the user never answers is answered by 'auto' after
\* the prompt timeout and the attempt goes on; no attempt waits forever.
Presented(p) ==
  /\ proc[p].prompt.mounted
  /\ p = "turn" => proc[p].prompt.timeoutSeconds # Undefined

PromptWaitIsBounded ==
  \A p \in Procs : Presented(p) ~> (proc[p].prompt.performed > 0)

\* ------------------------------------------------- one attempt, with fairness
\* tryCompressChat called directly, followed through its suspension points.
\* The continuation after `await compress(...)` is the engine's own code and
\* always runs; calculateRequestTokenCount and startChat are taken to settle.
\* Nothing is assumed of the summarization call: generateContent is awaited
\* with `abortSignal: new AbortController().signal` and no timer beside it,
\* so it resolves, rejects, or stays pending
AttemptInit ==
  /\ history \in {SubSeq(AlternatingHistory, 1, n) : n \in 0..10}
                  \cup UNION {[1..n -> SplitMessages] : n \in 1..2}
  /\ lastPromptTokenCount \in TokenLevels
  /\ modelLimit \in ModelLimits
  /\ hasFailedCompressionAttempt \in BOOLEAN
  /\ messagesSinceLastCompress = 0
  /\ lastCompressionTime = 0
  /\ isCompressing = FALSE
  /\ config = DefaultConfig
  /\ now = ClockStart
  /\ proc = [p \in Procs |-> IdleProc]
  /\ lastResult = NoResult

AttemptNext ==
  \/ \E f \in BOOLEAN, o \in ExecutorOptions : CompressCommand(f, o)
  \/ \E c \in SplitChars : SummaryResolves("cmd", c)
  \/ \E t \in CountLevels : CountResolves("cmd", t)
  \/ CompressThrows("cmd")
  \/ CompressReturns("cmd")
  \/ \E t \in TokenLevels : RestartResolves("cmd", t)
  \/ RestartThrows("cmd")

AttemptSpec ==
  /\ AttemptInit
  /\ [][AttemptNext]_vars
  /\ WF_vars(CompressReturns("cmd"))
  /\ WF_vars(\E t \in CountLevels : CountResolves("cmd", t))
  /\ WF_vars(\E t \in TokenLevels : RestartResolves("cmd", t))

\* C30: an attempt terminates even when the model hangs: once tryCompressChat
\* has set the in-progress flag, the attempt ends with a result or an error and
\* the flag is cleared again, whether or not the summarization call resolves
AttemptTerminates == isCompressing ~> ~isCompressing

\* once the summarization has settled, the attempt does end and clears the flag
AttemptEndsAfterSummary ==
  (isCompressing /\ proc["cmd"].pc # "summarizing") ~> ~isCompressing

\* ------------------------------------------------------------------ telemetry
\* C31: telemetry on every outcome: every invocation of compress() has logged
\* exactly one chat_compression event when it returns, whether the result is
\* NOOP, COMPRESSED or COMPRESSION_FAILED_INFLATED_TOKEN_COUNT, and the event
\* carries the tokens before and after, the messages preserved and compressed,
\* whether a goal was used, and the strategy name
TelemetryOnEveryOutcome ==
  \A p \in Procs : proc[p].pc = "returning" =>
    /\ Len(proc[p].logged) = 1
    /\ proc[p].logged[1].tokens_before = proc[p].originalTokenCount
    /\ proc[p].logged[1].tokens_after = proc[p].newTokenCount
    /\ proc[p].logged[1].messages_preserved = Len(proc[p].historyToKeep)
    /\ proc[p].logged[1].messages_compressed = Len(proc[p].historyToCompress)
    /\ proc[p].logged[1].goal_was_selected = (proc[p].goalWasSelected = "true")
    /\ proc[p].logged[1].trigger_reason \in {"percentage", "since-last-prompt"}

\* the same for the results that ran the summarization
TelemetryOnSummarizedOutcome ==
  \A p \in Procs : (proc[p].pc = "returning" /\ proc[p].compressionStatus # "NOOP") =>
    /\ Len(proc[p].logged) = 1
    /\ proc[p].logged[1].tokens_before = proc[p].originalTokenCount
    /\ proc[p].logged[1].tokens_after = proc[p].newTokenCount
    /\ proc[p].logged[1].messages_preserved = Len(proc[p].historyToKeep)
    /\ proc[p].logged[1].messages_compressed = Len(proc[p].historyToCompress)
    /\ proc[p].logged[1].goal_was_selected = (proc[p].goalWasSelected = "true")
    /\ proc[p].logged[1].trigger_reason \in {"percentage", "since-last-prompt"}

GuardCountersWrittenOnlyByAttempt ==
  [][(isCompressing /\ (messagesSinceLastCompress' # messagesSinceLastCompress
                          \/ lastCompressionTime' # lastCompressionTime)) =>
       \E p \in Procs : proc[p].pc \in AttemptPcs /\ StepOf(p)
    ]_vars

\* the time of the last compaction, taken alone, is written only by an attempt
LastCompressionTimeWrittenOnlyByAttempt ==
  [][lastCompressionTime' # lastCompressionTime =>
       \E p \in Procs : proc[p].pc \in AttemptPcs /\ StepOf(p)
    ]_vars

\* C34: NOOP changes nothing: a tryCompressChat call that returns NOOP leaves
\* the history, messagesSinceLastCompress, lastCompressionTime, the sticky
\* failure flag and the trigger configuration as they were before the call,
\* and the in-progress flag is false again when it returns.  The call is two
\* steps here, up to `await compress(...)` and from there to the return
NoopChangesNothing ==
  [][\A p \in Procs :
       /\ (StartsAttempt(p) /\ proc'[p].compressionStatus = "NOOP") =>
            /\ proc'[p].pc = "returning"
            /\ UNCHANGED <<history, messagesSinceLastCompress, lastCompressionTime,
                           hasFailedCompressionAttempt, config>>
       /\ (proc[p].pc = "returning" /\ proc[p].compressionStatus = "NOOP" /\ StepOf(p)) =>
            /\ lastResult' = Returned(p, "NOOP")
            /\ proc'[p].pc = "idle"
            /\ ~isCompressing'
            /\ UNCHANGED <<history, messagesSinceLastCompress, lastCompressionTime,
                           hasFailedCompressionAttempt, config>>
    ]_vars

\* a call that was not forced has returned NOOP on a session whose sticky
\* failure flag is set, and the flag is still set
NoopReturnedWithStickyFlag ==
  /\ lastResult = Returned("cmd", "NOOP")
  /\ proc["cmd"].pc = "idle"
  /\ ~isCompressing
  /\ hasFailedCompressionAttempt
  /\ Len(history) > 0

\* ------------------------------------------- one turn, with nested calls and hooks
\* a top-level sendMessageStream call whose BeforeAgent hook blocks or stops
\* the execution: the call yields the Error event before it touches the counter
BeforeAgentHookBlocks ==
  /\ proc["turn"].pc = "idle"
  /\ proc' = [proc EXCEPT !["turn"] = [IdleProc EXCEPT !.pc = "blocked"]]
  /\ UNCHANGED <<history, lastPromptTokenCount, modelLimit, hasFailedCompressionAttempt,
                 messagesSinceLastCompress, lastCompressionTime, isCompressing, config, now,
                 lastResult>>

\* the consumer resumes the generator after the Error event: the call returns
BlockedCallReturns ==
  /\ proc["turn"].pc = "blocked"
  /\ proc' = [proc EXCEPT !["turn"] = IdleProc]
  /\ UNCHANGED <<history, lastPromptTokenCount, modelLimit, hasFailedCompressionAttempt,
                 messagesSinceLastCompress, lastCompressionTime, isCompressing, config, now,
                 lastResult>>

\* mutant: the guard counter counts every call
NestedSendMessageStream_CountsMessage(earlyReturn, chars) ==
  /\ proc["turn"].pc \in {"idle", "streaming"}
  /\ messagesSinceLastCompress < MaxMessages
  /\ messagesSinceLastCompress' = messagesSinceLastCompress + 1
  /\ IF earlyReturn
     THEN /\ proc' = [proc EXCEPT !["turn"] = IdleProc]
          /\ UNCHANGED history
     ELSE /\ Len(history) + 2 <= MaxHistory
          /\ history' = Append(history, UserMsg(chars))
          /\ proc' = [proc EXCEPT !["turn"] = [IdleProc EXCEPT !.pc = "nestedStreaming"]]
  /\ UNCHANGED <<lastPromptTokenCount, modelLimit, hasFailedCompressionAttempt,
                 lastCompressionTime, isCompressing, config, now, lastResult>>

\* sendMessageStream called by itself with isTopLevelCall = false: the retry
\* after an InvalidStream event of the running stream, or the continuation
\* after the post-response check (next speaker is the model, AfterAgent hook);
\* the outer call returns what the nested call returns
NestedSendMessageStream(earlyReturn, chars) ==
  /\ proc["turn"].pc \in {"idle", "streaming"}
  /\ IF earlyReturn
     THEN /\ proc' = [proc EXCEPT !["turn"] = IdleProc]
          /\ UNCHANGED history
     ELSE /\ Len(history) + 2 <= MaxHistory
          /\ history' = Append(history, UserMsg(chars))
          /\ proc' = [proc EXCEPT !["turn"] = [IdleProc EXCEPT !.pc = "nestedStreaming"]]
  /\ UNCHANGED <<lastPromptTokenCount, modelLimit, hasFailedCompressionAttempt,
                 messagesSinceLastCompress, lastCompressionTime, isCompressing, config, now,
                 lastResult>>

\* the response stream of a nested call ends: the post-response check is
\* skipped, the call returns or continues with another nested call
NestedStreamResponse(outcome, chars, tokens) ==
  /\ proc["turn"].pc = "nestedStreaming"
  /\ IF outcome = "error"
     THEN UNCHANGED <<history, lastPromptTokenCount>>
     ELSE /\ history' = Append(history,
                IF outcome = "toolCall" THEN ToolCallMsg(chars) ELSE ModelMsg(chars))
          /\ lastPromptTokenCount' = tokens
  /\ proc' = [proc EXCEPT !["turn"] = IdleProc]
  /\ UNCHANGED <<modelLimit, hasFailedCompressionAttempt, messagesSinceLastCompress,
                 lastCompressionTime, isCompressing, config, now, lastResult>>

TurnNext ==
  \/ \E e \in BOOLEAN, c \in MessageChars : SendMessageStream(e, c)
  \/ BeforeAgentHookBlocks
  \/ BlockedCallReturns
  \/ \E o \in {"error", "toolCall", "text"}, c \in MessageChars, t \in TokenLevels :
        StreamResponse(o, c, t)
  \/ \E e \in BOOLEAN, c \in MessageChars : NestedSendMessageStream(e, c)
  \/ \E o \in {"error", "toolCall", "text"}, c \in MessageChars, t \in TokenLevels :
        NestedStreamResponse(o, c, t)
  \/ HandlePostResponseCompression
  \/ \E x \in ExtractionResults : PrepareResolves(x)
  \/ \E s \in Goals \cup {"auto", "disable", "less_frequent", Null} : PromptResolves(s)
  \/ \E c \in MessageChars : SummaryResolves("turn", c)
  \/ \E t \in CountLevels : CountResolves("turn", t)
  \/ CompressThrows("turn")
  \/ CompressReturns("turn")
  \/ \E t \in TokenLevels : RestartResolves("turn", t)
  \/ RestartThrows("turn")
  \/ Tick

TurnSpec == Init /\ [][TurnNext]_vars

\* the step starts a top-level sendMessageStream call
TopLevelCallStep ==
  /\ proc["turn"].pc = "idle"
  /\ \/ proc'["turn"].pc \in {"streaming", "blocked"}
     \/ messagesSinceLastCompress' > messagesSinceLastCompress
\* the step belongs to a nested call: it starts one or ends its stream
NestedCallStep ==
  \/ proc["turn"].pc # "nestedStreaming" /\ proc'["turn"].pc = "nestedStreaming"
  \/ proc["turn"].pc = "nestedStreaming" /\ StepOf("turn")
\* the trigger is evaluated in the step that leaves the post-response check
TriggerEvaluatedOnlyAfterResponse ==
  /\ (proc'["turn"].pc = "postResponse" /\ proc["turn"].pc # "postResponse") =>
       /\ proc["turn"].pc = "streaming"
       /\ history'[Len(history')].role = "model" /\ ~history'[Len(history')].functionCall
  /\ (proc["turn"].pc = "postResponse" /\ StepOf("turn")) => proc'["turn"].pc # "postResponse"
  /\ (proc'["turn"].pc = "streaming" /\ proc["turn"].pc # "streaming") =>
       proc["turn"].pc = "idle" /\ messagesSinceLastCompress' = messagesSinceLastCompress + 1
  /\ (StepOf("turn") /\ proc'["turn"].pc \in {"extracting", "prompting"} \cup AttemptPcs) =>
       proc["turn"].pc \in {"postResponse", "extracting", "prompting"} \cup AttemptPcs
NestedCallsLeaveEngineAlone ==
  NestedCallStep =>
    /\ UNCHANGED <<messagesSinceLastCompress, lastCompressionTime, isCompressing, config>>
    /\ proc'["turn"].pc \in {"idle", "nestedStreaming"}

\* C35: only top-level turns drive the engine: a nested sendMessageStream
\* call neither increments messagesSinceLastCompress nor evaluates the trigger
\* nor starts a compaction; a top-level call increments the counter by exactly
\* 1 and evaluates the trigger at most once, after the response has been
\* streamed and only if the turn has no pending tool calls
OnlyTopLevelTurnsDriveEngine ==
  [][/\ NestedCallsLeaveEngineAlone
     /\ TriggerEvaluatedOnlyAfterResponse
     /\ TopLevelCallStep => messagesSinceLastCompress' = messagesSinceLastCompress + 1
    ]_vars

\* C35 as amended: the same, with the counter incremented by exactly 1 in every
\* top-level call that gets past the BeforeAgent hook, and left alone by a call
\* the hook blocks
OnlyUnblockedTopLevelTurnsDriveEngine ==
  [][/\ NestedCallsLeaveEngineAlone
     /\ TriggerEvaluatedOnlyAfterResponse
     /\ (TopLevelCallStep /\ proc'["turn"].pc # "blocked") =>
          messagesSinceLastCompress' = messagesSinceLastCompress + 1
     /\ (TopLevelCallStep /\ proc'["turn"].pc = "blocked") =>
          UNCHANGED messagesSinceLastCompress
    ]_vars

\* a nested call has streamed its response after a top-level call was counted,
\* and the counter still counts one message
NestedCallStreamed ==
  /\ proc["turn"].pc = "idle"
  /\ messagesSinceLastCompress = 1
  /\ Len(history) = 4
  /\ lastResult = NoResult

\* ------------------------------------------------------------------ anti-thrash
\* the guards of shouldTriggerCompression do not let an evaluation below the
\* safety valve pass
GuardsBlock ==
  /\ lastPromptTokenCount * 100 < config.triggerUtilization * modelLimit
  /\ \/ messagesSinceLastCompress < config.minMessages
     \/ now - lastCompressionTime < config.minTimeBetween * MsPerSecond

GoalSplitKeepsToolPairs ==
  (proc["cmd"].pc = "summarizing" /\ proc["cmd"].options.preserveStrategy = "since-last-prompt"
     /\ proc["cmd"].historyToKeep # <<>>) =>
    ~(proc["cmd"].historyToKeep[1].role = "user" /\ proc["cmd"].historyToKeep[1].functionResponse)

\* the same for the attempts that split by percentage, the fallback included
PercentageSplitKeepsToolPairs ==
  (proc["cmd"].pc = "summarizing" /\ proc["cmd"].historyToKeep # <<>>
     /\ (proc["cmd"].options.preserveStrategy # "since-last-prompt"
           \/ FindCompressSplitPointSinceLastPrompt(history, MinMessagesToCompress) = NoSplit)) =>
    ~(proc["cmd"].historyToKeep[1].role = "user" /\ proc["cmd"].historyToKeep[1].functionResponse)

\* ------------------------------------------------------ the split as a partition
\* C39: the split is a partition: in every attempt that reaches the
\* summarization, by either strategy and by the fallback, historyToCompress
\* followed by historyToKeep is the curated history, message for message and
\* in order, and historyToCompress is not empty; so the event logged for a
\* COMPRESSED or COMPRESSION_FAILED_INFLATED_TOKEN_COUNT result has
\* messages_compressed + messages_preserved = the length of the curated
\* history and messages_compressed >= 1
SplitIsPartition ==
  \A p \in Procs :
    (proc[p].pc \in AttemptPcs /\ proc[p].compressionStatus # "NOOP") =>
      /\ proc[p].historyToCompress \o proc[p].historyToKeep = history
      /\ Len(proc[p].historyToCompress) >= 1
      /\ (proc[p].pc \in {"returning", "restarting"}) =>
           /\ SummarizedResult(p)
           /\ proc[p].logged[1].messages_compressed + proc[p].logged[1].messages_preserved
                = Len(history)
           /\ proc[p].logged[1].messages_compressed >= 1

\* a goal-based attempt has returned COMPRESSED with the split at the last
\* user message
GoalSplitCompressed ==
  /\ proc["cmd"].pc = "returning"
  /\ proc["cmd"].compressionStatus = "COMPRESSED"
  /\ proc["cmd"].options.preserveStrategy = "since-last-prompt"
  /\ Len(proc["cmd"].historyToCompress) >= MinMessagesToCompress
  /\ Len(proc["cmd"].historyToKeep) >= 1

\* ------------------------------------------------------ reserved selection tokens
ReservedTokens == {"auto", "other", "disable", "less_frequent"}

\* C40: reserved selection tokens are never used as a goal: the userGoal of
\* the options tryCompressChat is called with, after a prompt selection of the
\* automatic flow or of the /compress dialog, is never 'auto', 'other',
\* 'disable' or 'less_frequent'
ReservedTokensNeverGoal ==
  \A p \in Procs :
    (proc[p].pc \in AttemptPcs /\ (p = "turn" => proc[p].selection # NoSelection)) =>
      proc[p].options.userGoal \notin ReservedTokens

\* the /compress dialog alone: no reserved token becomes the goal, and after
\* 'other' the goal is the trimmed free text, or none when the text is empty or
\* the input is cancelled
DialogGoalIsNeverReserved ==
  /\ proc["cmd"].options.userGoal \notin ReservedTokens
  /\ (proc["cmd"].prompt.onSelectCalls = <<"other">> /\ proc["cmd"].prompt.performed > 0) =>
       proc["cmd"].options \in {NoOptions,
                                [userGoal |-> "custom goal", preserveStrategy |-> "since-last-prompt"]}

====
